---------------------------- MODULE Spec2Model ----------------------------
(***************************************************************************)
(* A model of the BMX MXF reader core:                                     *)
(*   - RawEssenceReader (src/src/essence_parser/RawEssenceReader.cpp):     *)
(*     the raw essence framer, specification SpecRaw (and SpecRawMix,      *)
(*     which adds AppendBytes and SetFixedSampleSize);                     *)
(*   - MXFFileReader::Read / Seek / GetPosition                            *)
(*     (src/src/mxf_reader/MXFFileReader.cpp), specification SpecRead;     *)
(*   - MXFFileReader::GetMaxPrecharge / GetMaxRollout, specification       *)
(*     SpecPC;                                                             *)
(*   - the sample-sequence position conversions, specification SpecConv;   *)
(*   - MXFFileReader::Open and ProcessMetadata, specification SpecOpen;    *)
(*   - MXFFileReader::GetReferencedPackage, the walk along the source      *)
(*     references of the header metadata, specification SpecWalk.          *)
(* The specifications share one set of variables; each one keeps the       *)
(* variables of the other parts at their idle values.                      *)
(***************************************************************************)
EXTENDS Integers, Sequences, FiniteSets, TLC

VARIABLES
    \* ---- RawEssenceReader fields
    mSampleBuffer,      \* bytes held, each byte named by its source offset (1..), 0 = appended byte
    mSampleDataSize,
    mNumSamples,
    mTotalReadLength,
    mMaxReadLength,
    mMaxSampleSize,
    mFixedSampleSize,
    mFrameStartSize,
    mReadBlockSize,
    mReadFirstSample,
    mLastSampleRead,
    \* ---- the essence source and the parser's view of it
    srcLayout,          \* [lead, frames, tail, kind]: junk bytes, frame sizes, trailing junk, parser kind
    srcPos,             \* bytes the source has handed out so far
    \* ---- observation of the calls made on the raw reader
    rawOp,              \* last call: "none", "read", "append", "reset", "setfixed"
    rawReq,             \* argument of the last call
    rawRet,             \* value the last call returned
    rawThrew,           \* the last call raised an exception
    rawCallNo,          \* number of ReadSamples calls since construction / Reset (capped)
    rawPlain,           \* only ReadSamples has been called since construction
    delivered,          \* the bytes of every sample returned so far, in order
    samplesTotal,       \* sum of the counts returned so far
    appended,           \* bytes taken by AppendBytes so far
    parserLog,          \* the calls the last ReadSamples made on the parser, in order
    \* ---- MXFFileReader: the clip, its internal essence reader, its external readers
    rdCfg,              \* [origin, tracks, index, complete, essEnd, exts]: what Open built
    essPos,             \* mEssenceReader->GetPosition(), in essence reader positions
    extPos,             \* extPos[i]: mExternalReaders[i]->GetPosition(), in its own edit units
    mReadError,
    mReadErrorMessage,  \* "" when clear, "exception" for the message of the exception caught
    mRequireFrameInfoCount,
    \* ---- observation of the last Read / Seek call, nothing kept of the calls before
    rdOp,               \* "none", "read", "seek"
    rdN,                \* num_samples of the last Read, position of the last Seek
    rdRet,              \* value the last Read returned
    rdEntry,            \* current_position: GetPosition() on entry to the last Read
    rdFail,             \* what raised in the last Read: "none", "int", "seek", "ext", "assert";
                        \* "info": nothing raised, the frame info could not be extracted
    rdReq,              \* rdReq[i]: num_external_samples asked of external reader i (0: not pulled)
    rdLog,              \* the pulls and seeks the last Read issued, in order
    bufLog,             \* the calls the last Read made on the enabled track buffers
    \* ---- observation of the last GetMaxPrecharge / GetMaxRollout call
    pcOp,               \* "none", "precharge", "rollout"
    pcPos,              \* the target position
    pcRes,              \* [threw, val]: the call raised, or the value it returned
    \* ---- a position conversion there and back
    cvSeq,              \* the external sample sequence
    cvDuration,         \* mDuration
    cvPos,              \* the clip position converted (-1: none yet)
    cvHigher,           \* CONVERT_INTERNAL_POS(cvPos)
    cvBack,             \* CONVERT_EXTERNAL_POS(cvHigher)
    \* ---- MXFFileReader::Open: the file opened and what Open leaves in the reader
    opFile,             \* the file: its partitions, material package tracks, text objects
    mEnableIndexFile,
    opResult,           \* "none" before Open, then the OpenResult returned
    opStage,            \* the step of Open that raised: "none" when it returned Success
    opPartition,        \* the partition chosen for metadata (0: none, 1: the header partition)
    mEssenceReader,     \* TRUE when an essence reader is held
    mHeaderMetadata,    \* TRUE when the header metadata is held
    mTrackReaders,
    mInternalTrackReaders,
    mExternalReaders,
    mExternalTrackReaders,
    mExternalSampleSequences,
    mTextObjects,
    mInternalTextObjects,
    mFileOrigin,
    mEditRate,          \* the clip edit rate, 0 while unset
    mDuration,
    \* ---- MXFFileReader::GetReferencedPackage: the walk along the SourceClips
    gpTracks,           \* the tracks of the header metadata: [ref, start, origin, type_match]
    gpTrack,            \* track of the invocation in progress (0: none)
    gpOffsetIn,         \* offset_in of the invocation in progress
    gpResult            \* "idle", "walking", "true", "false"

rawVars ==<<mSampleBuffer, mSampleDataSize, mNumSamples, mTotalReadLength, mMaxReadLength,
             mMaxSampleSize, mFixedSampleSize, mFrameStartSize, mReadBlockSize,
             mReadFirstSample, mLastSampleRead, srcLayout, srcPos, rawOp, rawReq, rawRet,
             rawThrew, rawCallNo, rawPlain, delivered, samplesTotal, appended, parserLog>>

rdVars == <<rdCfg, essPos, extPos, mReadError, mReadErrorMessage, mRequireFrameInfoCount,
            rdOp, rdN, rdRet, rdEntry, rdFail, rdReq, rdLog, bufLog>>

pcVars == <<pcOp, pcPos, pcRes>>

cvVars == <<cvSeq, cvDuration, cvPos, cvHigher, cvBack>>

opVars == <<opFile, mEnableIndexFile, opResult, opStage, opPartition, mEssenceReader,
            mHeaderMetadata, mTrackReaders, mInternalTrackReaders, mExternalReaders,
            mExternalTrackReaders, mExternalSampleSequences, mTextObjects,
            mInternalTextObjects, mFileOrigin, mEditRate, mDuration>>

gpVars == <<gpTracks, gpTrack, gpOffsetIn, gpResult>>

vars == <<rawVars, rdVars, pcVars, cvVars, opVars, gpVars>>

\* what an operation of one part leaves alone: the other parts
notRawVars == <<rdVars, pcVars, cvVars, opVars, gpVars>>

notRdVars == <<rawVars, pcVars, cvVars, opVars, gpVars>>

notPcVars == <<rawVars, rdVars, cvVars, opVars, gpVars>>

notCvVars == <<rawVars, rdVars, pcVars, opVars, gpVars>>

notOpVars == <<rawVars, rdVars, pcVars, cvVars, gpVars>>

notGpVars == <<rawVars, rdVars, pcVars, cvVars, opVars>>

-----------------------------------------------------------------------------
(* Bounds of the model *)

MaxFrames == 2          \* frames in a parsed source
MaxFrame == 3           \* largest frame size, in bytes
MaxReq == 3             \* largest num_samples passed to ReadSamples
MaxAppend == 2          \* bytes AppendBytes may add in total
MaxCalls == 2           \* cap of the ReadSamples call counter
MaxPos == 4             \* largest clip position sought; the clip is one edit unit longer
MaxRead == 5            \* largest num_samples passed to Read
MaxIndex == 2           \* entries of a generated index table
MaxTarget == 6          \* largest target position of a precharge / rollout query
MaxTracks == 3          \* material package tracks of a file whose tracks are enumerated
MaxTexts == 2           \* text objects of a file's material package
MaxGraph == 3           \* tracks of a header metadata graph
MaxOffset == 3          \* largest offset a package-reference walk is followed to

-----------------------------------------------------------------------------
(* Helpers *)

Min(a, b) == IF a < b THEN a ELSE b

Max(a, b) == IF a > b THEN a ELSE b

RECURSIVE SeqSum(_)
SeqSum(s) == IF s = <<>> THEN 0 ELSE Head(s) + SeqSum(Tail(s))

\* the source offsets a+1 .. a+n as a byte sequence
Bytes(a, n) == [i \in 1..n |-> a + i]

\* all sequences over S of length 0..n
SeqsUpTo(S, n) == UNION {[1..k -> S] : k \in 0..n}


-----------------------------------------------------------------------------
(* uint32_t arithmetic.  The subtraction in ReadSamples is done in uint32_t *)
(* and wraps when the buffer holds more than is asked for.  The model's     *)
(* integers do not reach 2^32, so the word is scaled: every byte count of   *)
(* the model is far below the modulus, and a wrapped value is far above     *)
(* every byte count, as in the program.                                     *)

UInt32Wrap == 2^30

U32(x) == x % UInt32Wrap

-----------------------------------------------------------------------------
(* The essence source (EssenceSource interface) and the essence parser      *)
(* (EssenceParser interface) the raw reader is given.                       *)

SrcLen(lay) == lay.lead + SeqSum(lay.frames) - lay.cut

\* source offset (1-based) of the first byte of frame f
FrameStart(lay, f) == lay.lead + SeqSum(SubSeq(lay.frames, 1, f - 1)) + 1

IsFrameStart(lay, b) == \E f \in 1..Len(lay.frames) : FrameStart(lay, f) = b

FrameOf(lay, b) == CHOOSE f \in 1..Len(lay.frames) : FrameStart(lay, f) = b

\* bytes of a frame the size-declaring parser needs before it knows the size
HdrLen == 2

\* EssenceSource::Read: hands out the next bytes, fewer only at the end of the source
SourceRead(pos, size) == Min(size, SrcLen(srcLayout) - pos)

\* EssenceParser::ParseFrameStart: offset of the first frame start in the window
ParseFrameStart(data) ==
    LET hits == {i \in 1..Len(data) : IsFrameStart(srcLayout, data[i])}
    IN IF hits = {} THEN [found |-> FALSE, offset |-> 0]
       ELSE [found |-> TRUE, offset |-> (CHOOSE i \in hits : \A j \in hits : i <= j) - 1]

\* EssenceParser::ParseFrameSize2 on the bytes from the sample start.
\* kind "declared": the frame carries its size in its first HdrLen bytes;
\* kind "scan": the frame ends where the next frame start is seen.
ParseFrameSize2(data) ==
    IF Len(data) = 0 THEN [kind |-> "unknown", size |-> 0]
    ELSE IF ~IsFrameStart(srcLayout, data[1]) THEN [kind |-> "null", size |-> 0]
    ELSE LET size == srcLayout.frames[FrameOf(srcLayout, data[1])]
         IN IF srcLayout.kind = "declared"
            THEN IF Len(data) >= HdrLen THEN [kind |-> "complete", size |-> size]
                 ELSE [kind |-> "unknown", size |-> 0]
            ELSE IF Len(data) > size THEN [kind |-> "complete", size |-> size]
                 ELSE [kind |-> "unknown", size |-> 0]

\* ParsedFrameSize::CompleteSize: an unknown frame size is completed with the
\* bytes that are left, when there are any
CompleteSize(sz, data_size) ==
    IF data_size > 0 THEN [ok |-> TRUE, sz |-> [kind |-> "complete", size |-> data_size]]
    ELSE [ok |-> FALSE, sz |-> sz]

-----------------------------------------------------------------------------
(* RawEssenceReader.  The methods are operators on a record r of the fields *)
(* they change: buf, sds (mSampleDataSize), ns (mNumSamples), total         *)
(* (mTotalReadLength), first (mReadFirstSample), last (mLastSampleRead),    *)
(* srcPos, nr (the count the last ReadBytes returned), threw, and calls:     *)
(* the calls made on the parser, each with the bytes it was given.          *)

Raw == [buf |-> mSampleBuffer, sds |-> mSampleDataSize, ns |-> mNumSamples,
        total |-> mTotalReadLength, first |-> mReadFirstSample, last |-> mLastSampleRead,
        srcPos |-> srcPos, nr |-> 0, threw |-> FALSE, ok |-> TRUE, calls |-> <<>>]

ActualSize_Uncapped(total, size) == size

\* the size ReadBytes / AppendBytes actually take under the max_read_length cap
ActualSize(total, size) ==
    IF mMaxReadLength > 0 /\ total + size > mMaxReadLength
    THEN mMaxReadLength - total
    ELSE size

ReadBytesDone(r, num_read) ==
    [r EXCEPT !.buf = r.buf \o Bytes(r.srcPos, num_read),
              !.srcPos = r.srcPos + num_read,
              !.total = r.total + num_read,
              !.nr = num_read]

ReadBytesActual(r, actual_size) ==
    IF actual_size = 0 THEN [r EXCEPT !.nr = 0]
    ELSE ReadBytesDone(r, SourceRead(r.srcPos, actual_size))

ReadBytes(r, size) ==
    IF ~(mMaxReadLength = 0 \/ r.total <= mMaxReadLength)
    THEN [r EXCEPT !.threw = TRUE, !.nr = 0]
    ELSE ReadBytesActual(r, ActualSize(r.total, size))

ShiftSampleData(r, to_offset, from_offset) ==
    [r EXCEPT !.buf = SubSeq(r.buf, 1, to_offset) \o SubSeq(r.buf, from_offset + 1, Len(r.buf))]

\* the loop of ReadAndParseSample: parse, and read another block while the size is
\* unknown.  The result is [r, sz, snr]: the reader, the parsed size, sample_num_read.
RECURSIVE ParseSizeLoop(_, _, _)

\* a call on the parser, with the bytes of the window it is given
ParserCalled(r, op, data) == [r EXCEPT !.calls = Append(@, [op |-> op, data |-> data])]

ParseSizeMore_ResetAgain(r1, sample_start_offset, sample_num_read, sample_size) ==
    IF r1.threw \/ r1.nr = 0
    THEN [r |-> r1, sz |-> sample_size, snr |-> sample_num_read]
    ELSE ParseSizeLoop(ParserCalled(r1, "ResetParseFrameSize", <<>>), sample_start_offset,
                       sample_num_read + r1.nr)

ParseSizeMore(r1, sample_start_offset, sample_num_read, sample_size) ==
    IF r1.threw \/ r1.nr = 0
    THEN [r |-> r1, sz |-> sample_size, snr |-> sample_num_read]
    ELSE ParseSizeLoop(r1, sample_start_offset, sample_num_read + r1.nr)

ParseSizeStep(r, sample_start_offset, sample_num_read, sample_size) ==
    IF sample_size.kind # "unknown"
    THEN [r |-> r, sz |-> sample_size, snr |-> sample_num_read]
    ELSE IF ~(mMaxSampleSize = 0 \/ Len(r.buf) - sample_start_offset <= mMaxSampleSize)
    THEN [r |-> [r EXCEPT !.threw = TRUE], sz |-> sample_size, snr |-> sample_num_read]
    ELSE ParseSizeMore(ReadBytes(r, mReadBlockSize), sample_start_offset, sample_num_read,
                       sample_size)

ParseSizeLoop(r, sample_start_offset, sample_num_read) ==
    ParseSizeStep(ParserCalled(r, "ParseFrameSize2",
                               SubSeq(r.buf, sample_start_offset + 1,
                                      sample_start_offset + sample_num_read)),
                  sample_start_offset, sample_num_read,
                  ParseFrameSize2(SubSeq(r.buf, sample_start_offset + 1,
                                         sample_start_offset + sample_num_read)))

CountSample_SizeNotAdded(r, size, more) ==
    [r EXCEPT !.sds = size, !.ns = r.ns + 1, !.ok = more]

\* the sample is counted
CountSample(r, size, more) ==
    [r EXCEPT !.sds = r.sds + size, !.ns = r.ns + 1, !.ok = more]

RemainingRead_CountsShort(r2, size, sample_num_read) ==
    IF r2.threw THEN [r2 EXCEPT !.ok = FALSE]
    ELSE IF size > sample_num_read + r2.nr
    THEN CountSample([r2 EXCEPT !.last = TRUE], sample_num_read + r2.nr, FALSE)
    ELSE CountSample(r2, size, TRUE)

\* after "Read remaining bytes if sample_size is larger"
RemainingRead(r2, size, sample_num_read) ==
    IF r2.threw THEN [r2 EXCEPT !.ok = FALSE]
    ELSE IF size > sample_num_read + r2.nr THEN [r2 EXCEPT !.last = TRUE, !.ok = FALSE]
    ELSE CountSample(r2, size, TRUE)

\* the size is still unknown at the end of the source
UnknownAtEnd(r, c) ==
    IF c.ok THEN CountSample([r EXCEPT !.last = TRUE], c.sz.size, FALSE)
    ELSE [r EXCEPT !.last = TRUE, !.ok = FALSE]

\* ReadAndParseSample after its parse loop
SampleParsed(lp) ==
    IF lp.r.threw THEN [lp.r EXCEPT !.ok = FALSE]
    ELSE IF lp.sz.kind = "complete" /\ lp.sz.size > lp.snr
    THEN RemainingRead(ReadBytes(lp.r, lp.sz.size - lp.snr), lp.sz.size, lp.snr)
    ELSE IF lp.sz.kind = "null" THEN [lp.r EXCEPT !.last = TRUE, !.ok = FALSE]
    ELSE IF lp.sz.kind = "unknown" THEN UnknownAtEnd(lp.r, CompleteSize(lp.sz, lp.snr))
    ELSE CountSample(lp.r, lp.sz.size, TRUE)

\* ReadAndParseSample from the ResetParseFrameSize call on
ParseSample(r, sample_start_offset, sample_num_read) ==
    SampleParsed(ParseSizeLoop(ParserCalled(r, "ResetParseFrameSize", <<>>),
                               sample_start_offset, sample_num_read))

\* the first sample: the frame start has been searched for
FrameStartParsed(r1, sample_start_offset, sample_num_read, st) ==
    IF ~st.found THEN [r1 EXCEPT !.last = TRUE, !.ok = FALSE]
    ELSE ParseSample([(IF st.offset > 0
                       THEN ShiftSampleData(r1, sample_start_offset,
                                            sample_start_offset + st.offset)
                       ELSE r1) EXCEPT !.first = TRUE],
                     sample_start_offset, sample_num_read - st.offset)

FirstSampleRead(r1, sample_start_offset, sample_num_read) ==
    IF r1.threw THEN [r1 EXCEPT !.ok = FALSE]
    ELSE FrameStartParsed(ParserCalled(r1, "ParseFrameStart",
                                       SubSeq(r1.buf, sample_start_offset + 1,
                                              sample_start_offset + sample_num_read)),
                          sample_start_offset, sample_num_read,
                          ParseFrameStart(SubSeq(r1.buf, sample_start_offset + 1,
                                                 sample_start_offset + sample_num_read)))

NextSampleRead(r1, sample_start_offset, sample_num_read) ==
    IF r1.threw THEN [r1 EXCEPT !.ok = FALSE]
    ELSE ParseSample(r1, sample_start_offset, sample_num_read)

ReadAndParseSampleFrom(r, r1) ==
    IF ~r.first
    THEN FirstSampleRead(r1, r.sds, Len(r.buf) - r.sds + r1.nr)
    ELSE NextSampleRead(r1, r.sds, Len(r.buf) - r.sds + r1.nr)

ReadAndParseSample(r) ==
    ReadAndParseSampleFrom(r, ReadBytes(r, IF ~r.first THEN mFrameStartSize
                                           ELSE mReadBlockSize))

\* the for loop of ReadSamples in parser mode
RECURSIVE ParseSamples(_, _)

ParseSamplesNext(r1, left) ==
    IF ~r1.ok THEN r1 ELSE ParseSamples(r1, left - 1)

ParseSamples(r, left) ==
    IF left = 0 THEN r ELSE ParseSamplesNext(ReadAndParseSample(r), left)

\* the fixed-size branch of ReadSamples, after its ReadBytes
FixedSamplesRead(r1, num_samples) ==
    IF r1.threw THEN r1
    ELSE [r1 EXCEPT !.last = IF Len(r1.buf) < U32(mFixedSampleSize * num_samples) THEN TRUE
                              ELSE r1.last,
                    !.ns = Len(r1.buf) \div mFixedSampleSize,
                    !.buf = SubSeq(r1.buf, 1, (Len(r1.buf) \div mFixedSampleSize)
                                                  * mFixedSampleSize),
                    !.sds = (Len(r1.buf) \div mFixedSampleSize) * mFixedSampleSize]

ReadFixedSamples(r, num_samples) ==
    FixedSamplesRead(ReadBytes(r, U32(mFixedSampleSize * num_samples - Len(r.buf))),
                     num_samples)

ShiftPreviousRead_NoShift(r) ==
    [r EXCEPT !.sds = 0, !.ns = 0]

\* "shift data from previous read to start of sample data"
ShiftPreviousRead(r) ==
    [ShiftSampleData(r, 0, r.sds) EXCEPT !.sds = 0, !.ns = 0]

\* ReadSamples after the mLastSampleRead test
ReadSamples(r, num_samples) ==
    IF mFixedSampleSize = 0 THEN ParseSamples(ShiftPreviousRead(r), num_samples)
    ELSE ReadFixedSamples(ShiftPreviousRead(r), num_samples)

-----------------------------------------------------------------------------
(* The sample-sequence conversions of bmx/Utils (positions and durations    *)
(* at or after 0).  "higher" is the external reader's rate, "lower" the     *)
(* clip's rate; sequence_size is the sum of the sequence.                   *)

\* the sum of count elements of the sequence from the 0-based offset on, cyclically
RECURSIVE SumFrom(_, _, _)
SumFrom(sequence, offset, count) ==
    IF count = 0 THEN 0
    ELSE sequence[offset + 1] + SumFrom(sequence, (offset + 1) % Len(sequence), count - 1)

\* the number of sequence elements the remainder consumes from the offset on; the
\* element that exhausts the remainder part-way counts when rounding up
RECURSIVE ConsumeRemainder(_, _, _, _)
ConsumeRemainder(sequence, offset, remainder, round_up) ==
    IF remainder <= 0 THEN 0
    ELSE (IF round_up \/ remainder >= sequence[offset + 1] THEN 1 ELSE 0)
         + ConsumeRemainder(sequence, (offset + 1) % Len(sequence),
                            remainder - sequence[offset + 1], round_up)

get_sequence_size(sequence) == SeqSum(sequence)

convert_position_higher(position, sequence) ==
    (position \div Len(sequence)) * get_sequence_size(sequence)
        + SumFrom(sequence, 0, position % Len(sequence))

convert_position_lower(position, sequence) ==
    (position \div get_sequence_size(sequence)) * Len(sequence)
        + ConsumeRemainder(sequence, 0, position % get_sequence_size(sequence), TRUE)

\* the duration in the higher rate of `duration` lower-rate units from lower `position`
convert_duration_higher(duration, position, sequence) ==
    (duration \div Len(sequence)) * get_sequence_size(sequence)
        + SumFrom(sequence, position % Len(sequence), duration % Len(sequence))

\* the whole lower-rate units in `duration` higher-rate units from higher `position`
convert_duration_lower(duration, position, sequence) ==
    (duration \div get_sequence_size(sequence)) * Len(sequence)
        + ConsumeRemainder(sequence, convert_position_lower(position, sequence) % Len(sequence),
                           duration % get_sequence_size(sequence), FALSE)

\* bool get_sample_sequence(lower, higher, ...): the sequences it yields: the rates
\* are equal, the higher is a multiple of the lower, or a known video/audio pattern
SampleSequences ==
    {<<1>>, <<2>>, <<1920>>, <<1602, 1601, 1602, 1601, 1602>>, <<801, 801, 801, 801, 800>>,
     <<2, 1, 2>>}

-----------------------------------------------------------------------------
(* MXFFileReader: Read, Seek, GetPosition *)

TO_ESS_READER_POS(pos) == pos + rdCfg.origin

FROM_ESS_READER_POS(pos) == pos - rdCfg.origin

CONVERT_EXTERNAL_POS_Swapped(pos, sequence) == convert_position_higher(pos, sequence)

CONVERT_INTERNAL_POS_Lower(pos, sequence) == convert_position_lower(pos, sequence)

CONVERT_INTERNAL_POS(pos, sequence) == convert_position_higher(pos, sequence)

CONVERT_EXTERNAL_POS(pos, sequence) == convert_position_lower(pos, sequence)

NumExt == Len(rdCfg.exts)

ExtSeq(i) == rdCfg.exts[i].seq

ExtEnabled(i) == rdCfg.exts[i].enabled

\* bool MXFFileReader::InternalIsEnabled() const
InternalIsEnabled == \E i \in 1..Len(rdCfg.tracks) : rdCfg.tracks[i].enabled

\* mEssenceReader: a file with internal tracks has an essence reader
HaveEssenceReader == rdCfg.tracks # <<>>

\* InternalIsEnabled() && mEssenceReader
InternalReading == InternalIsEnabled /\ HaveEssenceReader

\* EssenceReader::Read(num_samples): the samples read from pos, none at or past the end
EssenceRead(pos, end, num_samples) ==
    IF pos >= end THEN 0 ELSE Min(num_samples, end - pos)

\* the first enabled external reader
FirstEnabled(n) == CHOOSE i \in 1..n : ExtEnabled(i) /\ \A j \in 1..(i - 1) : ~ExtEnabled(j)

GetPositionOf(ess, ext) ==
    IF InternalReading THEN FROM_ESS_READER_POS(ess)
    ELSE IF \E i \in 1..NumExt : ExtEnabled(i)
    THEN CONVERT_EXTERNAL_POS(ext[FirstEnabled(NumExt)], ExtSeq(FirstEnabled(NumExt)))
    ELSE 0

\* int64_t MXFFileReader::GetPosition() const
GetPosition == GetPositionOf(essPos, extPos)

SeekEss_NoOrigin(ess, position) == IF InternalReading THEN position ELSE ess

\* void MXFFileReader::Seek(int64_t position): the positions it leaves
SeekEss(ess, position) == IF InternalReading THEN TO_ESS_READER_POS(position) ELSE ess

SeekExt(ext, position) ==
    [i \in 1..NumExt |-> IF ExtEnabled(i) THEN CONVERT_INTERNAL_POS(position, ExtSeq(i))
                         ELSE ext[i]]

\* the state of one Read call: positions, max_num_read, what raised, the requests, the log
ReadStart ==
    [essPos |-> essPos, extPos |-> extPos, max |-> 0, fail |-> "none",
     req |-> [i \in 1..NumExt |-> 0], log |-> <<>>]

InternalPulled(st, num_samples, num_read) ==
    [st EXCEPT !.essPos = @ + num_read, !.max = num_read,
               !.log = Append(@, [op |-> "pull", rd |-> 0, arg |-> num_samples])]

\* "if (InternalIsEnabled() && mEssenceReader) max_num_read = mEssenceReader->Read(num_samples)"
ReadInternal(st, num_samples, fault) ==
    IF ~InternalReading THEN st
    ELSE IF fault.kind = "int" THEN [st EXCEPT !.fail = "int"]
    ELSE InternalPulled(st, num_samples,
                        EssenceRead(st.essPos, rdCfg.essEnd, num_samples))

ExternalSynced_Always(st, i, external_current_position, fault) ==
    IF fault.kind = "seek" /\ fault.at = i THEN [st EXCEPT !.fail = "seek"]
    ELSE [st EXCEPT !.extPos[i] = external_current_position,
                    !.log = Append(@, [op |-> "seek", rd |-> i,
                                       arg |-> external_current_position])]

\* "ensure external reader is in sync"
ExternalSynced(st, i, external_current_position, fault) ==
    IF st.extPos[i] = external_current_position THEN st
    ELSE IF fault.kind = "seek" /\ fault.at = i THEN [st EXCEPT !.fail = "seek"]
    ELSE [st EXCEPT !.extPos[i] = external_current_position,
                    !.log = Append(@, [op |-> "seek", rd |-> i,
                                       arg |-> external_current_position])]

NumExternalSamples_PhaseZero(num_samples, current_position, sequence) ==
    convert_duration_higher(num_samples, 0, sequence)

\* num_external_samples = convert_duration_higher(num_samples, current_position, ...)
NumExternalSamples(num_samples, current_position, sequence) ==
    convert_duration_higher(num_samples, current_position, sequence)

ExternalCounted_NotConverted(st, i, external_current_position, num_external_samples, external_num_read) ==
    [st EXCEPT !.extPos[i] = @ + external_num_read,
               !.req[i] = num_external_samples,
               !.max = Max(@, external_num_read),
               !.log = Append(@, [op |-> "pull", rd |-> i, arg |-> num_external_samples])]

\* internal_num_read = convert_duration_lower(external_num_read, external_current_position, ...)
ExternalCounted(st, i, external_current_position, num_external_samples, external_num_read) ==
    [st EXCEPT !.extPos[i] = @ + external_num_read,
               !.req[i] = num_external_samples,
               !.max = Max(@, convert_duration_lower(external_num_read,
                                                     external_current_position, ExtSeq(i))),
               !.log = Append(@, [op |-> "pull", rd |-> i, arg |-> num_external_samples])]

\* the external reader's own Read failed: it returns 0 with its ReadError() set
ExternalFailed(st, i, num_external_samples) ==
    IF 0 < num_external_samples
    THEN [st EXCEPT !.fail = "ext", !.req[i] = num_external_samples,
                    !.log = Append(@, [op |-> "pull", rd |-> i, arg |-> num_external_samples])]
    ELSE ExternalCounted(st, i, st.extPos[i], num_external_samples, 0)

\* "external_num_read = mExternalReaders[i]->Read(num_external_samples, false)" and on
ExternalPulled(st, i, external_current_position, num_external_samples, fault) ==
    IF st.fail # "none" THEN st
    ELSE IF fault.kind = "ext" /\ fault.at = i THEN ExternalFailed(st, i, num_external_samples)
    ELSE ExternalCounted(st, i, external_current_position, num_external_samples,
                         EssenceRead(st.extPos[i], rdCfg.exts[i].end, num_external_samples))

\* the body of the loop over mExternalReaders, for an enabled reader
ReadExternal(st, i, num_samples, current_position, fault) ==
    ExternalPulled(ExternalSynced(st, i, CONVERT_INTERNAL_POS(current_position, ExtSeq(i)),
                                  fault),
                   i, CONVERT_INTERNAL_POS(current_position, ExtSeq(i)),
                   NumExternalSamples(num_samples, current_position, ExtSeq(i)), fault)

RECURSIVE ReadExternals(_, _, _, _, _)
ReadExternals(st, i, num_samples, current_position, fault) ==
    IF st.fail # "none" \/ i > NumExt THEN st
    ELSE IF ~ExtEnabled(i) THEN ReadExternals(st, i + 1, num_samples, current_position, fault)
    ELSE ReadExternals(ReadExternal(st, i, num_samples, current_position, fault), i + 1,
                       num_samples, current_position, fault)

\* BMX_ASSERT(max_num_read <= num_samples)
CheckMaxNumRead(st, num_samples) ==
    IF st.fail = "none" /\ st.max > num_samples THEN [st EXCEPT !.fail = "assert"] ELSE st

\* the try block of Read
ReadTry(num_samples, current_position, fault) ==
    CheckMaxNumRead(ReadExternals(ReadInternal(ReadStart, num_samples, fault), 1,
                                  num_samples, current_position, fault),
                    num_samples)

ReadFailed_NoSeek(st, current_position) ==
    /\ mReadError' = TRUE
    /\ mReadErrorMessage' = "exception"
    /\ bufLog' = <<"StartRead", "AbortRead">>
    /\ essPos' = st.essPos
    /\ extPos' = st.extPos
    /\ rdRet' = 0

\* "mReadError = true; AbortRead(); Seek(current_position); return 0;"
ReadFailed(st, current_position) ==
    /\ mReadError' = TRUE
    /\ mReadErrorMessage' = "exception"
    /\ bufLog' = <<"StartRead", "AbortRead">>
    /\ essPos' = SeekEss(st.essPos, current_position)
    /\ extPos' = SeekExt(st.extPos, current_position)
    /\ rdRet' = 0

ReadCompleted_NoCompleteRead(st) ==
    /\ mReadError' = FALSE
    /\ mReadErrorMessage' = ""
    /\ bufLog' = <<"StartRead">>
    /\ essPos' = st.essPos
    /\ extPos' = st.extPos
    /\ rdRet' = st.max

\* "CompleteRead(); return max_num_read;"
ReadCompleted(st) ==
    /\ mReadError' = FALSE
    /\ mReadErrorMessage' = ""
    /\ bufLog' = <<"StartRead", "CompleteRead">>
    /\ essPos' = st.essPos
    /\ extPos' = st.extPos
    /\ rdRet' = st.max

ReadEnd(st, current_position) ==
    /\ rdFail' = st.fail
    /\ rdReq' = st.req
    /\ rdLog' = st.log
    /\ IF st.fail = "none" THEN ReadCompleted(st) ELSE ReadFailed(st, current_position)

\* the errors a Read can meet: none, the parsing of a frame the frame info is
\* extracted from, the internal pull, the seek or the pull of external reader `at`
Faults ==
    {[kind |-> "none", at |-> 0], [kind |-> "info", at |-> 0], [kind |-> "int", at |-> 0]}
        \cup {[kind |-> k, at |-> i] : k \in {"seek", "ext"}, i \in 1..NumExt}

\* void MXFFileReader::ExtractFrameInfo(): the mRequireFrameInfoCount it leaves.  The
\* frames are read from essence position 0 on and the essence reader is put back
\* where it was; at the end of the essence one frame read is good enough.
ExtractFrameInfo(count, fault) ==
    IF fault.kind = "info" THEN count
    ELSE IF rdCfg.essEnd >= count THEN 0
    ELSE IF rdCfg.essEnd >= 1 THEN 0
    ELSE count

\* "if (mRequireFrameInfoCount > 0) ExtractFrameInfo();"
FrameInfoRequired(fault) ==
    IF mRequireFrameInfoCount > 0 THEN ExtractFrameInfo(mRequireFrameInfoCount, fault) ELSE 0

FrameInfoNotExtracted_ReadStarted ==
    /\ mReadError' = TRUE
    /\ mReadErrorMessage' = "Failed to extract information from frame(s)"
    /\ rdRet' = 0
    /\ rdFail' = "info"
    /\ rdReq' = [i \in 1..NumExt |-> 0]
    /\ rdLog' = <<>>
    /\ bufLog' = <<"StartRead">>
    /\ UNCHANGED <<essPos, extPos>>

\* "mReadError = true; mReadErrorMessage = ...; return 0;"
FrameInfoNotExtracted ==
    /\ mReadError' = TRUE
    /\ mReadErrorMessage' = "Failed to extract information from frame(s)"
    /\ rdRet' = 0
    /\ rdFail' = "info"
    /\ rdReq' = [i \in 1..NumExt |-> 0]
    /\ rdLog' = <<>>
    /\ bufLog' = <<>>
    /\ UNCHANGED <<essPos, extPos>>

\* uint32_t MXFFileReader::Read(uint32_t num_samples, bool is_top)
Read(num_samples, fault) ==
    /\ rdOp' = "read"
    /\ rdN' = num_samples
    /\ rdEntry' = GetPosition
    /\ mRequireFrameInfoCount' = FrameInfoRequired(fault)
    /\ IF FrameInfoRequired(fault) > 0 THEN FrameInfoNotExtracted
       ELSE ReadEnd(ReadTry(num_samples, GetPosition, fault), GetPosition)
    /\ UNCHANGED <<rdCfg, notRdVars>>

\* void MXFFileReader::Seek(int64_t position)
Seek(position) ==
    /\ rdOp' = "seek"
    /\ rdN' = position
    /\ essPos' = SeekEss(essPos, position)
    /\ extPos' = SeekExt(extPos, position)
    /\ rdRet' = 0
    /\ rdEntry' = GetPosition
    /\ rdFail' = "none"
    /\ rdReq' = [i \in 1..NumExt |-> 0]
    /\ rdLog' = <<>>
    /\ bufLog' = <<>>
    /\ UNCHANGED <<rdCfg, mReadError, mReadErrorMessage, mRequireFrameInfoCount, notRdVars>>

\* the external readers Open may have attached: the sample sequence, whether any of
\* its tracks is enabled, where its essence ends (in its own edit units): at the
\* clip's end, or two clip units and one more sample in, and the required precharge
\* and rollout it reports
ExtProfiles ==
    {[seq |-> q, enabled |-> TRUE, end |-> convert_position_higher(MaxPos + 1, q),
      pre |-> 0, ro |-> 0] :
        q \in {<<1>>, <<1920>>, <<1602, 1601, 1602, 1601, 1602>>}}
    \cup {[seq |-> q, enabled |-> TRUE, end |-> convert_position_higher(2, q) + 1,
           pre |-> 0, ro |-> 0] :
            q \in {<<1>>, <<2, 1, 2>>}}
    \cup {[seq |-> <<2>>, enabled |-> FALSE, end |-> convert_position_higher(MaxPos + 1, <<2>>),
           pre |-> 0, ro |-> 0]}

\* the external reader sets: none, one, or two of which the first is at the clip's
\* rate, short, or disabled
ExtSets ==
    {x \in SeqsUpTo(ExtProfiles, 2) :
        Len(x) = 2 => (x[1].seq = <<1>> /\ x[1].end > 3) \/ x[1].seq = <<2, 1, 2>>
                         \/ ~x[1].enabled}

\* (the internal tracks, mFileOrigin, edit units of essence after the origin)
InternalOptions ==
    {<<<<>>, 0, 0>>,
     <<<<[enabled |-> TRUE, essence_type |-> "IEC_DV25"]>>, 0, MaxPos + 1>>,
     <<<<[enabled |-> TRUE, essence_type |-> "IEC_DV25"]>>, 1, 2>>}

ReaderConfigs ==
    {[origin |-> ie[2], tracks |-> ie[1], index |-> <<>>, complete |-> TRUE,
      essEnd |-> ie[2] + ie[3], exts |-> x] :
        ie \in InternalOptions, x \in ExtSets}

\* mRequireFrameInfoCount when Open has left the extraction to the first Read: no
\* frame info required, that of the first frame (AVC-Intra, D-10 AES3), that of
\* the first four frames (VBI / ANC data with an ST 436 manifest frame count of four)
FrameInfoCounts == {0, 1, 4}

ReadFresh ==
    /\ mReadError = FALSE
    /\ mReadErrorMessage = ""
    /\ rdOp = "none"
    /\ rdN = 0
    /\ rdRet = 0
    /\ rdEntry = 0
    /\ rdFail = "none"
    /\ rdLog = <<>>
    /\ bufLog = <<>>

\* the clip after Open: every reader at clip position 0
InitRead ==
    /\ rdCfg \in ReaderConfigs
    /\ essPos = rdCfg.origin
    /\ extPos = [i \in 1..NumExt |-> 0]
    /\ rdReq = [i \in 1..NumExt |-> 0]
    /\ mRequireFrameInfoCount \in (IF HaveEssenceReader THEN FrameInfoCounts ELSE {0})
    /\ ReadFresh

IdleRead ==
    /\ rdCfg = [origin |-> 0, tracks |-> <<>>, index |-> <<>>, complete |-> TRUE,
                essEnd |-> 0, exts |-> <<>>]
    /\ essPos = 0
    /\ extPos = <<>>
    /\ rdReq = <<>>
    /\ mRequireFrameInfoCount = 0
    /\ ReadFresh

NextRead ==
    \/ \E n \in 1..MaxRead : \E f \in Faults : Read(n, f)
    \/ \E p \in 0..MaxPos : Seek(p)

-----------------------------------------------------------------------------
(* MXFFileReader: GetMaxPrecharge, GetMaxRollout with limit_to_available false *)

InterFrameEssenceTypes ==
    {"MPEG2LG_422P_ML_576I", "MPEG2LG_MP_ML_576I", "MPEG2LG_422P_HL_1080I",
     "MPEG2LG_422P_HL_1080P", "MPEG2LG_422P_HL_720P", "MPEG2LG_MP_HL_1920_1080I",
     "MPEG2LG_MP_HL_1920_1080P", "MPEG2LG_MP_HL_1440_1080I", "MPEG2LG_MP_HL_1440_1080P",
     "MPEG2LG_MP_HL_720P", "MPEG2LG_MP_H14_1080I", "MPEG2LG_MP_H14_1080P", "AVC_BASELINE",
     "AVC_CONSTRAINED_BASELINE", "AVC_MAIN", "AVC_EXTENDED", "AVC_HIGH", "AVC_HIGH_10",
     "AVC_HIGH_422", "AVC_HIGH_444"}

HaveInterFrameEncodingTrack_EnabledOrNot ==
    \E i \in 1..Len(rdCfg.tracks) : rdCfg.tracks[i].essence_type \in InterFrameEssenceTypes

\* bool MXFFileReader::HaveInterFrameEncodingTrack() const
HaveInterFrameEncodingTrack ==
    \E i \in 1..Len(rdCfg.tracks) :
        /\ rdCfg.tracks[i].enabled
        /\ rdCfg.tracks[i].essence_type \in InterFrameEssenceTypes

\* EssenceReader::LegitimisePosition: the position brought into the essence range
LegitimisePosition(position) ==
    IF rdCfg.essEnd <= 0 THEN 0 ELSE Max(0, Min(position, rdCfg.essEnd - 1))

NoIndexEntry == [found |-> FALSE, temporal_offset |-> 0, key_frame_offset |-> 0]

\* EssenceReader::GetIndexEntry: the entry of an essence position, if there is one
GetIndexEntry(position) ==
    IF position >= 0 /\ position < Len(rdCfg.index)
    THEN [found |-> TRUE, temporal_offset |-> rdCfg.index[position + 1].temporal_offset,
          key_frame_offset |-> rdCfg.index[position + 1].key_frame_offset]
    ELSE NoIndexEntry

\* bool MXFFileReader::GetInternalIndexEntry(MXFIndexEntryExt *entry, int64_t position) const
GetInternalIndexEntry(position) ==
    IF HaveEssenceReader THEN GetIndexEntry(TO_ESS_READER_POS(position)) ELSE NoIndexEntry

\* "no precharge if target position outside essence range"
InEssenceRange(target_position) ==
    FROM_ESS_READER_POS(LegitimisePosition(TO_ESS_READER_POS(target_position)))
        = target_position

AnchorPrecharge_OwnKeyFrameOffset(target_index_entry_offset, index_entry, anchor_entry) ==
    target_index_entry_offset + index_entry.key_frame_offset

\* "precharge = target_index_entry_offset + index_entry.key_frame_offset", the entry
\* reread at target_position + target_index_entry_offset
AnchorPrecharge(target_index_entry_offset, index_entry, anchor_entry) ==
    IF anchor_entry.found THEN target_index_entry_offset + anchor_entry.key_frame_offset
    ELSE 0

IndexPrecharge(index_entry, target_position) ==
    IF ~index_entry.found THEN 0
    ELSE IF index_entry.temporal_offset # 0
    THEN AnchorPrecharge(index_entry.temporal_offset, index_entry,
                         GetInternalIndexEntry(target_position + index_entry.temporal_offset))
    ELSE index_entry.key_frame_offset

\* "return precharge < 0 ? precharge : 0"
NegativeOrZero(precharge) == IF precharge < 0 THEN precharge ELSE 0

\* "return rollout > 0 ? rollout : 0"
PositiveOrZero(rollout) == IF rollout > 0 THEN rollout ELSE 0

\* int16_t MXFFileReader::GetInternalPrecharge(int64_t position, false) const
GetInternalPrecharge(target_position) ==
    IF ~HaveEssenceReader \/ ~HaveInterFrameEncodingTrack THEN 0
    ELSE IF ~InEssenceRange(target_position) THEN 0
    ELSE NegativeOrZero(IndexPrecharge(GetInternalIndexEntry(target_position),
                                       target_position))

IndexRollout(index_entry) ==
    IF index_entry.found /\ index_entry.temporal_offset > 0 THEN index_entry.temporal_offset
    ELSE 0

\* int16_t MXFFileReader::GetInternalRollout(int64_t position, false) const
GetInternalRollout(target_position) ==
    IF ~HaveEssenceReader \/ ~HaveInterFrameEncodingTrack THEN 0
    ELSE IF ~InEssenceRange(target_position) THEN 0
    ELSE PositiveOrZero(IndexRollout(GetInternalIndexEntry(target_position)))

Returned(val) == [threw |-> FALSE, val |-> val]

Threw == [threw |-> TRUE, val |-> 0]

\* the loop of GetMaxPrecharge over mExternalReaders from reader i on
RECURSIVE ExternalPrecharge(_, _)
ExternalPrecharge(precharge, i) ==
    IF i > NumExt THEN Returned(precharge)
    ELSE IF ~ExtEnabled(i) \/ rdCfg.exts[i].pre = 0 THEN ExternalPrecharge(precharge, i + 1)
    ELSE IF ExtSeq(i) # <<1>> THEN Threw
    ELSE ExternalPrecharge(Min(precharge, rdCfg.exts[i].pre), i + 1)

\* the loop of GetMaxRollout over mExternalReaders from reader i on
RECURSIVE ExternalRollout(_, _)
ExternalRollout(rollout, i) ==
    IF i > NumExt THEN Returned(rollout)
    ELSE IF ~ExtEnabled(i) \/ rdCfg.exts[i].ro = 0 THEN ExternalRollout(rollout, i + 1)
    ELSE IF ExtSeq(i) # <<1>> THEN Threw
    ELSE ExternalRollout(Max(rollout, rdCfg.exts[i].ro), i + 1)

PrechargeReturned_Magnitude(r) ==
    IF r.threw THEN r ELSE Returned(IF r.val < 0 THEN 0 - r.val ELSE 0)

\* "return precharge < 0 ? (int16_t)precharge : 0"
PrechargeReturned(r) == IF r.threw THEN r ELSE Returned(NegativeOrZero(r.val))

\* "return rollout > 0 ? (int16_t)rollout : 0"
RolloutReturned(r) == IF r.threw THEN r ELSE Returned(PositiveOrZero(r.val))

\* int16_t MXFFileReader::GetMaxPrecharge(int64_t position, false) const
GetMaxPrecharge(target_position) ==
    IF ~rdCfg.complete THEN Threw
    ELSE PrechargeReturned(
            ExternalPrecharge(IF InternalIsEnabled THEN GetInternalPrecharge(target_position)
                              ELSE 0, 1))

\* int16_t MXFFileReader::GetMaxRollout(int64_t position, false) const
GetMaxRollout(target_position) ==
    IF ~rdCfg.complete THEN Threw
    ELSE RolloutReturned(
            ExternalRollout(IF InternalIsEnabled THEN GetInternalRollout(target_position)
                            ELSE 0, 1))

GetMaxPrechargeCall(position) ==
    /\ pcOp' = "precharge"
    /\ pcPos' = position
    /\ pcRes' = GetMaxPrecharge(position)
    /\ UNCHANGED <<rdVars, notPcVars>>

GetMaxRolloutCall(position) ==
    /\ pcOp' = "rollout"
    /\ pcPos' = position
    /\ pcRes' = GetMaxRollout(position)
    /\ UNCHANGED <<rdVars, notPcVars>>

\* the index tables: temporal_offset and key_frame_offset of each essence position
IndexEntry(toff, kfo) == [temporal_offset |-> toff, key_frame_offset |-> kfo]

KeyFrameEvery3 ==
    <<IndexEntry(0, 0), IndexEntry(0, -1), IndexEntry(0, -2), IndexEntry(0, 0),
      IndexEntry(0, -1), IndexEntry(0, -2)>>

BFrameAt4 ==
    <<IndexEntry(0, 0), IndexEntry(0, 0), IndexEntry(0, -2), IndexEntry(0, 0),
      IndexEntry(-2, 0), IndexEntry(0, 0)>>

IndexTables ==
    [1..MaxIndex -> {IndexEntry(0, -1), IndexEntry(0, 1), IndexEntry(-1, 1), IndexEntry(1, 0)}]
        \cup {KeyFrameEvery3, BFrameAt4}

TrackSets ==
    {<<[enabled |-> TRUE, essence_type |-> "MPEG2LG_422P_HL_1080I"]>>,
     <<[enabled |-> TRUE, essence_type |-> "IEC_DV25"]>>,
     <<[enabled |-> FALSE, essence_type |-> "AVC_HIGH"],
       [enabled |-> TRUE, essence_type |-> "WAVE_PCM"]>>,
     <<[enabled |-> FALSE, essence_type |-> "AVC_HIGH"]>>}

\* the external readers of a query: at the clip's rate or not, enabled or not, and
\* the required precharge and rollout each reports
QueryExtProfiles ==
    {[seq |-> <<1>>, enabled |-> TRUE, end |-> 0, pre |-> -3, ro |-> 2],
     [seq |-> <<1>>, enabled |-> TRUE, end |-> 0, pre |-> 0, ro |-> 0],
     [seq |-> <<1920>>, enabled |-> TRUE, end |-> 0, pre |-> 0, ro |-> 0],
     [seq |-> <<1920>>, enabled |-> TRUE, end |-> 0, pre |-> -1, ro |-> 1],
     [seq |-> <<1>>, enabled |-> FALSE, end |-> 0, pre |-> -3, ro |-> 2]}

QueryExtSets ==
    {x \in SeqsUpTo(QueryExtProfiles, 2) :
        Len(x) = 2 => x[1].pre = 0 /\ x[1].seq = <<1>> /\ x[2].pre # 0}

\* complete files, with or without internal tracks, and one incomplete file
QueryConfigs ==
    {[origin |-> o, tracks |-> t, index |-> ix, complete |-> TRUE, essEnd |-> Len(ix),
      exts |-> x] :
        o \in 0..1, t \in TrackSets, ix \in IndexTables, x \in QueryExtSets}
    \cup {[origin |-> 0, tracks |-> <<>>, index |-> <<>>, complete |-> TRUE, essEnd |-> 0,
           exts |-> x] : x \in QueryExtSets}
    \cup {[origin |-> 0, tracks |-> t, index |-> KeyFrameEvery3, complete |-> FALSE,
           essEnd |-> 6, exts |-> <<>>] : t \in TrackSets}

PcFresh ==
    /\ pcOp = "none"
    /\ pcPos = 0
    /\ pcRes = Returned(0)

InitQuery ==
    /\ rdCfg \in QueryConfigs
    /\ essPos = rdCfg.origin
    /\ extPos = [i \in 1..NumExt |-> 0]
    /\ rdReq = [i \in 1..NumExt |-> 0]
    /\ mRequireFrameInfoCount = 0
    /\ ReadFresh
    /\ PcFresh

NextQuery ==
    \/ \E p \in -1..MaxTarget : GetMaxPrechargeCall(p)
    \/ \E p \in -1..MaxTarget : GetMaxRolloutCall(p)

-----------------------------------------------------------------------------
(* A clip position converted to an external reader's position and back *)

ConvertThereAndBack(p) ==
    /\ cvPos' = p
    /\ cvHigher' = CONVERT_INTERNAL_POS(p, cvSeq)
    /\ cvBack' = CONVERT_EXTERNAL_POS(CONVERT_INTERNAL_POS(p, cvSeq), cvSeq)
    /\ UNCHANGED <<cvSeq, cvDuration, notCvVars>>

InitConv ==
    /\ cvSeq \in SampleSequences
    /\ cvDuration \in 1..(2 * MaxPos)
    /\ cvPos = -1
    /\ cvHigher = 0
    /\ cvBack = 0

IdleConv ==
    /\ cvSeq = <<1>>
    /\ cvDuration = 1
    /\ cvPos = -1
    /\ cvHigher = 0
    /\ cvBack = 0

NextConv == \E p \in 0..(cvDuration - 1) : ConvertThereAndBack(p)

-----------------------------------------------------------------------------
(* MXFFileReader::Open and ProcessMetadata.  The file is a record            *)
(*   headerOk   readHeaderPartition() succeeds                               *)
(*   seekable   mFile->isSeekable()                                          *)
(*   parts      the header byte count of each partition, the header          *)
(*              partition first                                              *)
(*   complete   readPartitions() succeeds                                    *)
(*   footer     readFooterPartition() returns the last partition             *)
(*   tracks     the material package's picture, sound and data tracks        *)
(*   exts       the external files the package resolver has opened           *)
(*   bodySID    the BodySID of the essence container data                    *)
(*   texts      text objects of the material package's static DM tracks      *)
(* and the clip being built is a record st whose result is "none" until a    *)
(* step throws.  Edit rates are whole numbers of edit units per second.      *)

PICTURE == 1

SOUND == 2

DATA == 4

\* a material package track and the file source package track it refers to
MpTrack(data_def, number, id, kind, origin, duration) ==
    [data_def |-> data_def, number |-> number, id |-> id, kind |-> kind, origin |-> origin,
     duration |-> duration, rate |-> 1, fspRate |-> 1, ext |-> 0, src |-> id, lead |-> 0]

\* a material package track whose essence is in external file ext, track src
ExtTrack(data_def, number, id, ext, src) ==
    [data_def |-> data_def, number |-> number, id |-> id, kind |-> "ext", origin |-> 0,
     duration |-> 4, rate |-> 1, fspRate |-> 1, ext |-> ext, src |-> src, lead |-> 0]

\* "throw result" / an exception caught as MXF_RESULT_FAIL
Throw(st, result, stage) == [st EXCEPT !.result = result, !.stage = stage]

OpenStart ==
    [result |-> "none", stage |-> "none", partition |-> 0, file_is_complete |-> FALSE,
     ess |-> FALSE, metadata |-> TRUE,
     tracks |-> <<>>, internal |-> <<>>, exts |-> <<>>, extTracks |-> <<>>, seqs |-> <<>>,
     texts |-> <<>>, itexts |-> <<>>, origin |-> 0, rate |-> 0, duration |-> -2, bodySID |-> 0]

\* "file_is_complete = mFile->readPartitions()", tried with the index file enabled
\* on a seekable file
FileIsComplete(file) == mEnableIndexFile /\ file.seekable /\ file.complete

\* the last partition with header metadata, 0 when there is none
LastWithHeaderMetadata(parts) ==
    IF \E i \in 1..Len(parts) : parts[i] > 0
    THEN CHOOSE i \in 1..Len(parts) : parts[i] > 0 /\ \A j \in (i + 1)..Len(parts) : parts[j] = 0
    ELSE 0

\* the footer partition readFooterPartition() returns, 0 for none
FooterPartition(file) ==
    IF file.seekable /\ file.footer /\ Len(file.parts) > 1 THEN Len(file.parts) ELSE 0

\* the footer partition when it has metadata, else the header partition when it has
FooterThenHeader(file, footer_partition) ==
    IF footer_partition # 0 /\ file.parts[footer_partition] > 0 THEN footer_partition
    ELSE IF file.parts[1] > 0 THEN 1
    ELSE 0

\* the metadata_partition Open settles on, 0 for none
MetadataPartition(file) ==
    IF mEnableIndexFile
    THEN IF FileIsComplete(file) THEN LastWithHeaderMetadata(file.parts) ELSE 1
    ELSE FooterThenHeader(file, FooterPartition(file))

\* the KL after the partition pack is header metadata when the partition has any
IsHeaderMetadataKey(file, partition) == file.parts[partition] > 0

-----------------------------------------------------------------------------
(* ProcessMetadata: the track readers *)

TrackReader(t, mp, internal) ==
    [mp |-> mp, data_def |-> t.data_def, material_track_number |-> t.number,
     material_track_id |-> t.id, essence_type |-> IF t.kind = "tt" THEN "TIMED_TEXT" ELSE "OTHER",
     edit_rate |-> t.rate, duration |-> t.duration, internal |-> internal, ext |-> t.ext,
     src |-> t.src, lead_filler_offset |-> t.lead, start |-> 0]

InternalTrackCreated(st, t, mp) ==
    [st EXCEPT !.internal = Append(@, TrackReader(t, mp, TRUE)),
               !.tracks = Append(@, TrackReader(t, mp, TRUE))]

\* "check the File Package origins"
CheckFilePackageOrigin(st, t, mp) ==
    IF t.kind = "tt"
    THEN IF t.origin # 0 THEN Throw(st, "NOT_SUPPORTED", "tracks")
         ELSE InternalTrackCreated(st, t, mp)
    ELSE IF st.internal # <<>> /\ t.origin # st.origin THEN Throw(st, "NOT_SUPPORTED", "tracks")
         ELSE InternalTrackCreated([st EXCEPT !.origin = t.origin], t, mp)

\* "get track origin (pre-charge)"
CheckTrackOrigin(st, t, mp) ==
    IF t.origin < 0 THEN Throw(st, "NOT_SUPPORTED", "tracks")
    ELSE CheckFilePackageOrigin(st, t, mp)

\* MXFTrackReader* MXFFileReader::CreateInternalTrackReader(...)
CreateInternalTrackReader(st, t, mp) ==
    IF st.rate = 0 THEN CheckTrackOrigin([st EXCEPT !.rate = t.fspRate], t, mp)
    ELSE IF st.rate # t.fspRate THEN Throw(st, "FAIL", "tracks")
    ELSE CheckTrackOrigin(st, t, mp)

ExternalTrackAdded(st, t, mp) ==
    [st EXCEPT !.exts = IF \E i \in 1..Len(@) : @[i] = t.ext THEN @ ELSE Append(@, t.ext),
               !.extTracks = Append(@, TrackReader(t, mp, FALSE)),
               !.tracks = Append(@, TrackReader(t, mp, FALSE))]

\* MXFTrackReader* MXFFileReader::GetExternalTrackReader(...)
GetExternalTrackReader(st, t, mp) ==
    IF \E i \in 1..Len(st.tracks) :
            ~st.tracks[i].internal /\ st.tracks[i].ext = t.ext /\ st.tracks[i].src = t.src
    THEN Throw(st, "NOT_SUPPORTED", "tracks")
    ELSE ExternalTrackAdded(st, t, mp)

\* the body of the loop over the material package tracks
ProcessTrack(st, t, mp, fault) ==
    IF fault.kind = "track" /\ fault.at = mp THEN Throw(st, "FAIL", "tracks")
    ELSE IF t.kind = "skip" THEN st
    ELSE IF t.kind = "ext" THEN GetExternalTrackReader(st, t, mp)
    ELSE CreateInternalTrackReader(st, t, mp)

RECURSIVE ProcessTracks(_, _, _, _)
ProcessTracks(st, file, mp, fault) ==
    IF st.result # "none" \/ mp > Len(file.tracks) THEN st
    ELSE ProcessTracks(ProcessTrack(st, file.tracks[mp], mp, fault), file, mp + 1, fault)

\* "if (mTrackReaders.empty()) THROW_RESULT(MXF_RESULT_NO_ESSENCE)"
CheckHaveTracks(st) ==
    IF st.result = "none" /\ st.tracks = <<>> THEN Throw(st, "NO_ESSENCE", "tracks") ELSE st

-----------------------------------------------------------------------------
(* ProcessMetadata: the lead filler of the tracks *)

\* int64_t convert_position(in_rate, in_position, out_rate, ROUND_UP)
convert_position_up(in_rate, in_position, out_rate) ==
    IF in_rate = out_rate THEN in_position
    ELSE (in_position * out_rate + in_rate - 1) \div in_rate

\* the loop of GetFixedLeadFillerOffset from the second track on
FixedOffsetOf(tracks, rate, fixed_offset) ==
    IF \A i \in 1..Len(tracks) :
            convert_position_up(tracks[i].edit_rate, tracks[i].lead_filler_offset, rate)
                = fixed_offset
    THEN fixed_offset
    ELSE 0

\* int64_t MXFFileReader::GetFixedLeadFillerOffset() const
GetFixedLeadFillerOffset(tracks, rate) ==
    IF tracks = <<>> THEN 0
    ELSE FixedOffsetOf(tracks, rate,
                       convert_position_up(tracks[1].edit_rate, tracks[1].lead_filler_offset,
                                           rate))

\* dynamic_cast<MXFTimedTextTrackReader*>(track_reader)
IsTimedTextTrackReader(track_reader) == track_reader.essence_type = "TIMED_TEXT"

IncludeLeadFiller_DurationKept(track_reader) ==
    IF track_reader.lead_filler_offset > 0
    THEN [track_reader EXCEPT !.start = track_reader.lead_filler_offset,
                              !.lead_filler_offset = 0]
    ELSE track_reader

\* "include the lead filler in the track duration and record it in the manifest
\* instead"
IncludeLeadFiller(track_reader) ==
    IF track_reader.lead_filler_offset > 0
    THEN [track_reader EXCEPT !.start = track_reader.lead_filler_offset,
                              !.duration = @ + track_reader.lead_filler_offset,
                              !.lead_filler_offset = 0]
    ELSE track_reader

\* the loop over the tracks with lead filler; a track reader of mTrackReaders and
\* of mInternalTrackReaders is one object
LeadFillerIncluded(st) ==
    IF \E i \in 1..Len(st.tracks) :
            st.tracks[i].lead_filler_offset > 0 /\ ~IsTimedTextTrackReader(st.tracks[i])
    THEN Throw(st, "NOT_SUPPORTED", "lead_filler")
    ELSE [st EXCEPT !.tracks = [i \in 1..Len(@) |-> IncludeLeadFiller(@[i])],
                    !.internal = [i \in 1..Len(@) |-> IncludeLeadFiller(@[i])]]

\* "check and post-process lead filler offset in Timed Text tracks"
PostProcessLeadFiller(st) ==
    IF st.result # "none" THEN st
    ELSE IF GetFixedLeadFillerOffset(st.tracks, st.rate) = 0
                \/ \A i \in 1..Len(st.tracks) : IsTimedTextTrackReader(st.tracks[i])
    THEN LeadFillerIncluded(st)
    ELSE st

-----------------------------------------------------------------------------
(* ProcessMetadata: the order of the tracks *)

\* static bool compare_track_reader(left_reader, right_reader)
compare_track_reader(left, right) ==
    IF left.data_def # right.data_def THEN left.data_def < right.data_def
    ELSE IF left.material_track_number # 0
    THEN right.material_track_number = 0
            \/ left.material_track_number < right.material_track_number
    ELSE IF right.material_track_number # 0 THEN FALSE
    ELSE IF left.material_track_id # 0
    THEN right.material_track_id = 0 \/ left.material_track_id < right.material_track_id
    ELSE right.material_track_id = 0

\* compare_track_reader says each of two tracks comes before the other: it is not
\* the strict weak ordering stable_sort requires, and the order of the two is not
\* defined
ComparesBothWays(left, right) ==
    compare_track_reader(left, right) /\ compare_track_reader(right, left)

\* the comparison a stable_sort makes between a later element and an earlier one;
\* swapUndefined: how it comes out when the order of the two is not defined
ComesBefore(later, earlier, swapUndefined) ==
    IF ComparesBothWays(later, earlier) THEN swapUndefined
    ELSE compare_track_reader(later, earlier)

\* x inserted into the sorted sequence s: before the elements at its end that x
\* comes before
RECURSIVE InsertTrack(_, _, _)
InsertTrack(s, x, swapUndefined) ==
    IF s # <<>> /\ ComesBefore(x, s[Len(s)], swapUndefined)
    THEN Append(InsertTrack(SubSeq(s, 1, Len(s) - 1), x, swapUndefined), s[Len(s)])
    ELSE Append(s, x)

\* stable_sort(mTrackReaders.begin(), mTrackReaders.end(), compare_track_reader)
RECURSIVE stable_sort(_, _)
stable_sort(s, swapUndefined) ==
    IF s = <<>> THEN <<>>
    ELSE InsertTrack(stable_sort(SubSeq(s, 1, Len(s) - 1), swapUndefined), s[Len(s)],
                     swapUndefined)

SortTracks(st, swapUndefined) ==
    IF st.result # "none" THEN st
    ELSE [st EXCEPT !.tracks = stable_sort(@, swapUndefined)]

-----------------------------------------------------------------------------
(* ProcessMetadata: body SID, edit rate, sample sequences, duration, text objects *)

HaveNonTimedTextInternal(st) ==
    \E i \in 1..Len(st.internal) : st.internal[i].essence_type # "TIMED_TEXT"

\* "get the body and index SIDs linked to single (non-timed text) internal essence
\* file source package"
LinkBodySID(st, file) ==
    IF st.result # "none" \/ ~HaveNonTimedTextInternal(st) THEN st
    ELSE IF file.bodySID = 0 THEN Throw(st, "NO_ESSENCE", "body_sid")
    ELSE [st EXCEPT !.bodySID = file.bodySID]

\* "the lowest external edit rate is the clip edit rate"
RECURSIVE LowestEditRate(_, _, _)
LowestEditRate(tracks, i, lowest) ==
    IF i > Len(tracks) THEN lowest
    ELSE LowestEditRate(tracks, i + 1,
                        IF lowest = 0 \/ tracks[i].edit_rate < lowest THEN tracks[i].edit_rate
                        ELSE lowest)

\* "set the clip edit rate if required, i.e. when there are no internal essence tracks"
SetClipEditRate(st) ==
    IF st.result # "none" \/ st.rate # 0 THEN st
    ELSE [st EXCEPT !.rate = LowestEditRate(st.tracks, 1, 0)]

\* bool get_sample_sequence(lower_edit_rate, higher_edit_rate, &sample_sequence): the
\* samples of the higher rate in each edit unit of the lower rate; <<>> when the
\* rates are incompatible
get_sample_sequence(lower_edit_rate, higher_edit_rate) ==
    IF higher_edit_rate < lower_edit_rate THEN <<>>
    ELSE IF higher_edit_rate % lower_edit_rate = 0 THEN <<higher_edit_rate \div lower_edit_rate>>
    ELSE IF lower_edit_rate = 2 /\ higher_edit_rate = 3 THEN <<2, 1>>
    ELSE <<>>

\* "extract the external track sample sequences"
RECURSIVE ExtractSampleSequences(_, _, _)
ExtractSampleSequences(st, file, i) ==
    IF st.result # "none" \/ i > Len(st.exts) THEN st
    ELSE IF get_sample_sequence(st.rate, file.exts[st.exts[i]].rate) = <<>>
    THEN Throw(st, "NOT_SUPPORTED", "sequences")
    ELSE ExtractSampleSequences(
            [st EXCEPT !.seqs = Append(@, get_sample_sequence(st.rate,
                                                              file.exts[st.exts[i]].rate))],
            file, i + 1)

\* int64_t convert_duration(in_rate, in_duration, out_rate, ROUND_AUTO): to a lower
\* rate the part of an edit unit is dropped
convert_duration(in_rate, in_duration, out_rate) ==
    IF in_duration <= 0 THEN 0
    ELSE IF out_rate < in_rate THEN (in_duration * out_rate) \div in_rate
    ELSE (in_duration * out_rate + in_rate - 1) \div in_rate

\* CONVERT_EXTERNAL_DUR(dur), for external reader i of the clip
CONVERT_EXTERNAL_DUR(dur, sequence) == convert_duration_lower(dur, 0, sequence)

ShorterDuration_Longer(duration, track_duration) ==
    IF duration = -2 \/ track_duration > duration THEN track_duration ELSE duration

\* "if (mDuration == -2 || track_duration < mDuration) mDuration = track_duration"
ShorterDuration(duration, track_duration) ==
    IF duration = -2 \/ track_duration < duration THEN track_duration ELSE duration

\* the loop over mInternalTrackReaders
RECURSIVE InternalDuration(_, _, _, _)
InternalDuration(internal, rate, i, duration) ==
    IF i > Len(internal) THEN duration
    ELSE IF internal[i].duration < 0 THEN -1
    ELSE InternalDuration(internal, rate, i + 1,
                          ShorterDuration(duration,
                                          convert_duration(internal[i].edit_rate,
                                                           internal[i].duration, rate)))

\* the loop over mExternalReaders
RECURSIVE ExternalDuration(_, _, _, _)
ExternalDuration(st, file, i, duration) ==
    IF i > Len(st.exts) THEN duration
    ELSE IF file.exts[st.exts[i]].duration < 0 THEN -1
    ELSE ExternalDuration(st, file, i + 1,
                          ShorterDuration(duration,
                                          CONVERT_EXTERNAL_DUR(file.exts[st.exts[i]].duration,
                                                               st.seqs[i])))

ClipDuration(st, file, internal_duration) ==
    IF internal_duration # -1 THEN ExternalDuration(st, file, 1, internal_duration)
    ELSE internal_duration

\* "determine the clip duration which is the minimum track duration or unknown (-1)"
DetermineDuration(st, file) ==
    IF st.result # "none" THEN st
    ELSE [st EXCEPT !.duration = ClipDuration(st, file,
                                              InternalDuration(st.internal, st.rate, 1, -2))]

\* the text objects of external reader e
ExternalTextObjects(file, e) == [k \in 1..file.exts[e].texts |-> [ext |-> e, k |-> k]]

RECURSIVE ExternalReadersTextObjects(_, _, _)
ExternalReadersTextObjects(st, file, i) ==
    IF i > Len(st.exts) THEN <<>>
    ELSE ExternalTextObjects(file, st.exts[i]) \o ExternalReadersTextObjects(st, file, i + 1)

\* "extract text objects from static tracks in material package", "add text objects
\* from external readers"
ExtractTextObjects(st, file) ==
    IF st.result # "none" THEN st
    ELSE [st EXCEPT !.itexts = [k \in 1..file.texts |-> [ext |-> 0, k |-> k]],
                    !.texts = [k \in 1..file.texts |-> [ext |-> 0, k |-> k]]
                                \o ExternalReadersTextObjects(st, file, 1)]

\* void MXFFileReader::ProcessMetadata(Partition *partition)
ProcessMetadata(st, file, fault, swapUndefined) ==
    ExtractTextObjects(
        DetermineDuration(
            ExtractSampleSequences(
                SetClipEditRate(
                    LinkBodySID(
                        SortTracks(
                            PostProcessLeadFiller(
                                CheckHaveTracks(ProcessTracks(st, file, 1, fault))),
                            swapUndefined),
                        file)),
                file, 1),
            file),
        file)

-----------------------------------------------------------------------------
(* Open *)

\* "read and process the header metadata"
ReadHeaderMetadata(st, file, fault, swapUndefined) ==
    IF ~IsHeaderMetadataKey(file, st.partition) \/ fault.kind = "read"
    THEN Throw(st, "FAIL", "read")
    ELSE ProcessMetadata(st, file, fault, swapUndefined)

\* "create internal essence reader", CheckRequireFrameInfo and ExtractFrameInfo
CreateEssenceReader(st, fault) ==
    IF st.result # "none" \/ st.internal = <<>> \/ st.bodySID = 0 THEN st
    ELSE IF fault.kind = "essence_reader" THEN Throw(st, "FAIL", "essence_reader")
    ELSE IF fault.kind = "frame_info"
    THEN Throw([st EXCEPT !.ess = TRUE], "FAIL", "frame_info")
    ELSE [st EXCEPT !.ess = TRUE]

\* the precharge / rollout checks and SetReadLimits at the end of Open
SetUpReadLimits(st, fault) ==
    IF st.result # "none" THEN st
    ELSE IF fault.kind = "read_limits" THEN Throw(st, "FAIL", "read_limits")
    ELSE [st EXCEPT !.result = "SUCCESS"]

ChoosePartition(st, file, fault, swapUndefined) ==
    IF st.partition = 0 THEN Throw(st, "NO_HEADER_METADATA", "partition")
    ELSE SetUpReadLimits(CreateEssenceReader(ReadHeaderMetadata(st, file, fault,
                                                                swapUndefined),
                                             fault),
                         fault)

\* the try block of Open
OpenTry(file, fault, swapUndefined) ==
    IF ~file.headerOk THEN Throw(OpenStart, "INVALID_FILE", "header")
    ELSE ChoosePartition([OpenStart EXCEPT !.partition = MetadataPartition(file),
                                           !.file_is_complete = FileIsComplete(file)],
                         file, fault, swapUndefined)

\* "// clean up": if (result != MXF_RESULT_SUCCESS) ...
CleanUp(st) ==
    IF st.result = "SUCCESS" THEN st
    ELSE [st EXCEPT !.ess = FALSE, !.metadata = FALSE, !.tracks = <<>>, !.internal = <<>>,
                    !.exts = <<>>, !.seqs = <<>>, !.extTracks = <<>>]

OpenDone(st) ==
    /\ opResult' = st.result
    /\ opStage' = st.stage
    /\ opPartition' = st.partition
    /\ mEssenceReader' = st.ess
    /\ mHeaderMetadata' = st.metadata
    /\ mTrackReaders' = st.tracks
    /\ mInternalTrackReaders' = st.internal
    /\ mExternalReaders' = st.exts
    /\ mExternalTrackReaders' = st.extTracks
    /\ mExternalSampleSequences' = st.seqs
    /\ mTextObjects' = st.texts
    /\ mInternalTextObjects' = st.itexts
    /\ mFileOrigin' = st.origin
    /\ mEditRate' = st.rate
    /\ mDuration' = st.duration

\* what can raise in Open besides what the file itself makes it reject: reading the
\* header metadata, the processing of material package track `at`, the creation of
\* the essence reader, the extraction of frame info, the set-up of the read limits
OpenFaults ==
    {[kind |-> k, at |-> 0] :
        k \in {"none", "read", "essence_reader", "frame_info", "read_limits"}}
        \cup {[kind |-> "track", at |-> i] : i \in 1..Len(opFile.tracks)}

\* OpenResult MXFFileReader::Open(File *file, ...), on a reader just constructed
Open(fault, swapUndefined) ==
    /\ opResult = "none"
    /\ OpenDone(CleanUp(OpenTry(opFile, fault, swapUndefined)))
    /\ UNCHANGED <<opFile, mEnableIndexFile, notOpVars>>

-----------------------------------------------------------------------------
(* The files opened *)

\* one picture track, header metadata in the only partition
BaseFile ==
    [headerOk |-> TRUE, seekable |-> TRUE, parts |-> <<1>>, complete |-> TRUE,
     footer |-> FALSE, tracks |-> <<MpTrack(PICTURE, 1, 1, "file", 0, 4)>>, exts |-> <<>>,
     bodySID |-> 1, texts |-> 0]

\* an external file at the clip's rate, with one text object
BaseExternal == [rate |-> 1, duration |-> 4, texts |-> 1]

\* files that differ in their partitions: with and without header metadata in the
\* header, body and footer partitions, seekable or not, all partitions readable or
\* not, a footer partition that can be read or not
PartitionFiles ==
    {[BaseFile EXCEPT !.seekable = s, !.parts = p, !.complete = c, !.footer = f] :
        s \in BOOLEAN, c \in BOOLEAN, f \in BOOLEAN,
        p \in {<<0>>, <<1>>, <<0, 0>>, <<0, 1>>, <<1, 0>>, <<1, 1>>, <<1, 0, 0>>}}
    \cup {[BaseFile EXCEPT !.headerOk = FALSE]}

\* files with text objects, internal and external tracks, with and without essence
TextFiles ==
    {[BaseFile EXCEPT !.texts = n, !.tracks = t, !.exts = <<BaseExternal>>, !.bodySID = b] :
        n \in 0..MaxTexts, b \in {0, 1},
        t \in {<<MpTrack(PICTURE, 1, 1, "file", 0, 4)>>,
               <<MpTrack(PICTURE, 1, 1, "file", 0, 4), ExtTrack(SOUND, 1, 2, 1, 1)>>,
               <<ExtTrack(SOUND, 1, 2, 1, 1)>>,
               <<MpTrack(DATA, 1, 1, "tt", 0, 4)>>,
               <<MpTrack(PICTURE, 1, 1, "skip", 0, 4)>>}}

\* the tracks of the files that differ in track order: picture tracks with every
\* track number and track id of 0..2, sound tracks without and with both
SortTrackKinds ==
    {MpTrack(PICTURE, n, i, "file", 0, 4) : n \in 0..2, i \in 0..2}
    \cup {MpTrack(SOUND, 0, 0, "file", 0, 4), MpTrack(SOUND, 1, 1, "file", 0, 4)}

SortFiles == {[BaseFile EXCEPT !.tracks = t] : t \in SeqsUpTo(SortTrackKinds, MaxTracks)}

\* the tracks of the files that differ in track origins
OriginTrackKinds ==
    {MpTrack(PICTURE, 1, 1, "file", o, 4) : o \in {-1, 0, 1}}
    \cup {MpTrack(DATA, 2, 2, "tt", o, 4) : o \in {0, 1}}

OriginFiles == {[BaseFile EXCEPT !.tracks = t] : t \in SeqsUpTo(OriginTrackKinds, MaxTracks)}

\* the files that differ in durations: up to two internal tracks with known and
\* unknown durations at the clip's rate and at twice it, up to two external files at
\* one, two and three times the clip's rate
DurationTrackKinds ==
    {[MpTrack(PICTURE, 1, 1, "file", 0, d) EXCEPT !.rate = r] : d \in {-1, 2, 5}, r \in {1, 2}}

DurationExternals == {[rate |-> r, duration |-> d, texts |-> 0] : r \in 1..3, d \in {-1, 3, 7}}

ExternalTracks(n) == [e \in 1..n |-> ExtTrack(SOUND, e, 10 + e, e, 1)]

DurationFiles ==
    {[BaseFile EXCEPT !.tracks = [i \in 1..Len(t) |-> [t[i] EXCEPT !.fspRate = r]]
                                    \o ExternalTracks(Len(x)),
                      !.exts = x] :
        r \in {1, 2}, t \in SeqsUpTo(DurationTrackKinds, 2), x \in SeqsUpTo(DurationExternals, 2)}

\* the tracks of the files that differ in lead filler: picture tracks and timed
\* text tracks without and with lead filler
LeadFillerTrackKinds ==
    {[MpTrack(PICTURE, 1, 1, "file", 0, 4) EXCEPT !.lead = f] : f \in 0..1}
    \cup {[MpTrack(DATA, 2, 2, "tt", 0, 4) EXCEPT !.lead = f] : f \in 0..2}

LeadFillerFiles ==
    {[BaseFile EXCEPT !.tracks = t] : t \in SeqsUpTo(LeadFillerTrackKinds, MaxTracks)}

OpenFiles ==
    PartitionFiles \cup TextFiles \cup SortFiles \cup OriginFiles \cup DurationFiles
        \cup LeadFillerFiles

\* MXFFileReader::MXFFileReader()
OpenFresh ==
    /\ opResult = "none"
    /\ opStage = "none"
    /\ opPartition = 0
    /\ mEssenceReader = FALSE
    /\ mHeaderMetadata = TRUE
    /\ mTrackReaders = <<>>
    /\ mInternalTrackReaders = <<>>
    /\ mExternalReaders = <<>>
    /\ mExternalTrackReaders = <<>>
    /\ mExternalSampleSequences = <<>>
    /\ mTextObjects = <<>>
    /\ mInternalTextObjects = <<>>
    /\ mFileOrigin = 0
    /\ mEditRate = 0
    /\ mDuration = 0

InitOpen ==
    /\ opFile \in OpenFiles
    /\ mEnableIndexFile \in BOOLEAN
    /\ OpenFresh

\* a reader on which Open is never called (the other specifications)
IdleOpen ==
    /\ opFile = BaseFile
    /\ mEnableIndexFile = TRUE
    /\ OpenFresh

NextOpen == \E fault \in OpenFaults : \E swapUndefined \in BOOLEAN : Open(fault, swapUndefined)

-----------------------------------------------------------------------------
(* MXFFileReader::GetReferencedPackage.  The header metadata is a set of     *)
(* tracks 1..n, each a record                                                 *)
(*   ref         the track its SourceClip refers to (0: no SourceClip, or the *)
(*               package or track it names is not in the file)                *)
(*   start       the SourceClip's StartPosition                               *)
(*   origin      the track's Origin                                           *)
(*   type_match  the track's package is of the package type looked for        *)
(* all at one edit rate.  Each invocation of the function is a step.          *)

\* "ref_offset = convert_position(..., source_clip->getStartPosition() + offset_in, ...);
\*  ref_offset += ref_track->getOrigin()"
RefOffset(track, offset_in) ==
    gpTracks[track].start + offset_in + gpTracks[gpTracks[track].ref].origin

\* "if (ref_track == track && offset_in == ref_offset)"
ReferencesItself(track, offset_in) ==
    gpTracks[track].ref = track /\ offset_in = RefOffset(track, offset_in)

\* the call from GetStartTimecodes: GetReferencedPackage(preface, infile_mp_track, 0, ...)
GetReferencedPackageCall ==
    /\ gpResult = "idle"
    /\ gpResult' = "walking"
    /\ gpTrack' = 1
    /\ gpOffsetIn' = 0
    /\ UNCHANGED <<gpTracks, notGpVars>>

WalkReturns(result) ==
    /\ gpResult' = result
    /\ UNCHANGED <<gpTrack, gpOffsetIn>>

\* "return GetReferencedPackage(preface, ref_track, ref_offset, package_type, ...)"
\* (offsets from MaxOffset on are not told apart: the walk only ever compares an
\* offset with itself plus the start position and origin)
WalkRecurses(ref_track, ref_offset) ==
    /\ gpResult' = "walking"
    /\ gpTrack' = ref_track
    /\ gpOffsetIn' = IF ref_offset > MaxOffset THEN MaxOffset ELSE ref_offset

\* one invocation of GetReferencedPackage(preface, track, offset_in, package_type, ...)
GetReferencedPackage ==
    /\ gpResult = "walking"
    /\ IF gpTracks[gpTrack].ref = 0 THEN WalkReturns("false")
       ELSE IF gpTracks[gpTracks[gpTrack].ref].type_match THEN WalkReturns("true")
       ELSE IF ReferencesItself(gpTrack, gpOffsetIn) THEN WalkReturns("false")
       ELSE WalkRecurses(gpTracks[gpTrack].ref, RefOffset(gpTrack, gpOffsetIn))
    /\ UNCHANGED <<gpTracks, notGpVars>>

\* the header metadata graphs: well-formed chains and malformed ones with cycles
MetadataGraphs ==
    [1..MaxGraph -> [ref : 0..MaxGraph, start : 0..1, origin : {0}, type_match : BOOLEAN]]

WalkFresh ==
    /\ gpTrack = 0
    /\ gpOffsetIn = 0
    /\ gpResult = "idle"

InitWalk ==
    /\ gpTracks \in MetadataGraphs
    /\ WalkFresh

\* a reader on which the walk is never made (the other specifications)
IdleWalk ==
    /\ gpTracks = <<>>
    /\ WalkFresh

NextWalk ==
    \/ GetReferencedPackageCall
    \/ GetReferencedPackage

-----------------------------------------------------------------------------
(* The raw reader's state machine *)

\* the sources: junk before the first frame, the frames, a last frame cut short
Layouts ==
    {[lead |-> lc[1], frames |-> f, cut |-> lc[2], kind |-> k] :
        lc \in {<<0, 0>>, <<1, 0>>, <<0, 1>>}, f \in SeqsUpTo(2..MaxFrame, MaxFrames),
        k \in {"declared", "scan"}}

\* (mFixedSampleSize, mMaxReadLength, mMaxSampleSize) as set before the first read
RawOptions ==
    {<<0, 0, 0>>, <<2, 0, 0>>, <<3, 0, 0>>, <<0, MaxFrame + 2, 0>>, <<2, MaxFrame + 2, 0>>,
     <<0, 0, 2>>}

RawFresh ==
    /\ mSampleBuffer = <<>>
    /\ mSampleDataSize = 0
    /\ mNumSamples = 0
    /\ mTotalReadLength = 0
    /\ mReadFirstSample = FALSE
    /\ mLastSampleRead = FALSE
    /\ srcPos = 0
    /\ rawOp = "none"
    /\ rawReq = 0
    /\ rawRet = 0
    /\ rawThrew = FALSE
    /\ rawCallNo = 0
    /\ rawPlain = TRUE
    /\ delivered = <<>>
    /\ samplesTotal = 0
    /\ appended = 0
    /\ parserLog = <<>>

InitRaw ==
    /\ RawFresh
    /\ srcLayout \in {l \in Layouts : l.cut = 0 \/ l.frames # <<>>}
    /\ \E o \in RawOptions :
        /\ mFixedSampleSize = o[1]
        /\ mMaxReadLength = o[2]
        /\ mMaxSampleSize = o[3]
    /\ mFrameStartSize \in {HdrLen, MaxFrame + 1}
    /\ mReadBlockSize \in {1, MaxFrame + 1}

\* the raw reader as constructed and never used (the other specifications)
IdleRaw ==
    /\ RawFresh
    /\ srcLayout = [lead |-> 0, frames |-> <<>>, cut |-> 0, kind |-> "declared"]
    /\ mFixedSampleSize = 0
    /\ mMaxReadLength = 0
    /\ mMaxSampleSize = 0
    /\ mFrameStartSize = MaxFrame + 1
    /\ mReadBlockSize = MaxFrame + 1

RawConfigUnchanged ==
    UNCHANGED <<mMaxReadLength, mMaxSampleSize, mFrameStartSize, mReadBlockSize, srcLayout>>

\* the fields ReadSamples leaves behind, and what the caller sees
ReadSamplesDone(r) ==
    /\ mSampleBuffer' = r.buf
    /\ mSampleDataSize' = r.sds
    /\ mNumSamples' = r.ns
    /\ mTotalReadLength' = r.total
    /\ mReadFirstSample' = r.first
    /\ mLastSampleRead' = r.last
    /\ srcPos' = r.srcPos
    /\ rawThrew' = r.threw
    /\ rawRet' = IF r.threw THEN 0 ELSE r.ns
    /\ delivered' = IF r.threw THEN delivered ELSE delivered \o SubSeq(r.buf, 1, r.sds)
    /\ samplesTotal' = IF r.threw THEN samplesTotal ELSE samplesTotal + r.ns
    /\ parserLog' = r.calls

ReadSamplesCall_NoLastSampleTest(num_samples) ==
    /\ rawOp' = "read"
    /\ rawReq' = num_samples
    /\ rawCallNo' = Min(rawCallNo + 1, MaxCalls)
    /\ RawConfigUnchanged
    /\ UNCHANGED <<mFixedSampleSize, rawPlain, appended, notRawVars>>
    /\ ReadSamplesDone(ReadSamples(Raw, num_samples))

\* uint32_t RawEssenceReader::ReadSamples(uint32_t num_samples)
ReadSamplesCall(num_samples) ==
    /\ rawOp' = "read"
    /\ rawReq' = num_samples
    /\ rawCallNo' = Min(rawCallNo + 1, MaxCalls)
    /\ RawConfigUnchanged
    /\ UNCHANGED <<mFixedSampleSize, rawPlain, appended, notRawVars>>
    /\ IF mLastSampleRead
       THEN /\ rawRet' = 0
            /\ rawThrew' = FALSE
            /\ parserLog' = <<>>
            /\ UNCHANGED <<mSampleBuffer, mSampleDataSize, mNumSamples, mTotalReadLength,
                           mReadFirstSample, mLastSampleRead, srcPos, delivered, samplesTotal>>
       ELSE ReadSamplesDone(ReadSamples(Raw, num_samples))

AppendBytesDone(actual_size) ==
    /\ rawThrew' = FALSE
    /\ rawRet' = actual_size
    /\ mSampleBuffer' = mSampleBuffer \o [i \in 1..actual_size |-> 0]
    /\ mTotalReadLength' = mTotalReadLength + actual_size
    /\ appended' = appended + actual_size

\* uint32_t RawEssenceReader::AppendBytes(const unsigned char *bytes, uint32_t size)
AppendBytesCall(size) ==
    /\ appended + size <= MaxAppend
    /\ rawOp' = "append"
    /\ rawReq' = size
    /\ rawPlain' = FALSE
    /\ parserLog' = <<>>
    /\ RawConfigUnchanged
    /\ UNCHANGED <<mFixedSampleSize, mSampleDataSize, mNumSamples, mReadFirstSample,
                   mLastSampleRead, srcPos, rawCallNo, delivered, samplesTotal, notRawVars>>
    /\ IF ~(mMaxReadLength = 0 \/ mTotalReadLength <= mMaxReadLength)
       THEN /\ rawThrew' = TRUE
            /\ rawRet' = 0
            /\ UNCHANGED <<mSampleBuffer, mTotalReadLength, appended>>
       ELSE AppendBytesDone(ActualSize(mTotalReadLength, size))

\* void RawEssenceReader::Reset(), the source's SeekStart succeeding: the reader is
\* as constructed again
ResetCall ==
    /\ rawOp # "none"
    /\ rawOp' = "none"
    /\ rawReq' = 0
    /\ rawRet' = 0
    /\ rawThrew' = FALSE
    /\ srcPos' = 0
    /\ mTotalReadLength' = 0
    /\ mSampleBuffer' = <<>>
    /\ mSampleDataSize' = 0
    /\ mNumSamples' = 0
    /\ mReadFirstSample' = FALSE
    /\ mLastSampleRead' = FALSE
    /\ rawCallNo' = 0
    /\ delivered' = <<>>
    /\ samplesTotal' = 0
    /\ parserLog' = <<>>
    /\ RawConfigUnchanged
    /\ UNCHANGED <<mFixedSampleSize, appended, rawPlain, notRawVars>>

\* void RawEssenceReader::SetFixedSampleSize(uint32_t size)
SetFixedSampleSizeCall(size) ==
    /\ size # mFixedSampleSize
    /\ mFixedSampleSize' = size
    /\ rawOp' = "setfixed"
    /\ rawReq' = size
    /\ parserLog' = <<>>
    /\ rawRet' = 0
    /\ rawThrew' = FALSE
    /\ rawPlain' = FALSE
    /\ RawConfigUnchanged
    /\ UNCHANGED <<mSampleBuffer, mSampleDataSize, mNumSamples, mTotalReadLength,
                   mReadFirstSample, mLastSampleRead, srcPos, rawCallNo, delivered,
                   samplesTotal, appended, notRawVars>>

\* reading a source to its end, and again after Reset
NextRaw ==
    \/ \E n \in 1..MaxReq : ReadSamplesCall(n)
    \/ ResetCall

InitSpecRaw == InitRaw /\ IdleRead /\ PcFresh /\ IdleConv /\ IdleOpen /\ IdleWalk

SpecRaw == InitSpecRaw /\ [][NextRaw]_vars

\* reading with bytes appended by the caller and the sample size changed between reads
InitRawMix ==
    /\ InitSpecRaw
    /\ srcLayout.lead = 0
    /\ srcLayout.cut = 0
    /\ mMaxSampleSize = 0
    /\ mFrameStartSize = MaxFrame + 1

NextRawMix ==
    \/ \E n \in 1..MaxReq : ReadSamplesCall(n)
    \/ \E n \in 1..MaxAppend : AppendBytesCall(n)
    \/ \E s \in {0, 2} : SetFixedSampleSizeCall(s)

SpecRawMix == InitRawMix /\ [][NextRawMix]_vars

-----------------------------------------------------------------------------
(* The clip reader's and the conversion's specifications *)

InitSpecRead == InitRead /\ IdleRaw /\ PcFresh /\ IdleConv /\ IdleOpen /\ IdleWalk

SpecRead == InitSpecRead /\ [][NextRead]_vars

InitSpecConv == InitConv /\ IdleRaw /\ IdleRead /\ PcFresh /\ IdleOpen /\ IdleWalk

SpecConv == InitSpecConv /\ [][NextConv]_vars

InitSpecPC == InitQuery /\ IdleRaw /\ IdleConv /\ IdleOpen /\ IdleWalk

SpecPC == InitSpecPC /\ [][NextQuery]_vars

InitSpecOpen == InitOpen /\ IdleRaw /\ IdleRead /\ PcFresh /\ IdleConv /\ IdleWalk

SpecOpen == InitSpecOpen /\ [][NextOpen]_vars

InitSpecWalk == InitWalk /\ IdleRaw /\ IdleRead /\ PcFresh /\ IdleConv /\ IdleOpen

\* an invocation that can run does run: the function is not interrupted
SpecWalk == InitSpecWalk /\ [][NextWalk]_vars /\ WF_vars(NextWalk)


-----------------------------------------------------------------------------
(* Claims about RawEssenceReader, checked under SpecRaw *)

\* only ReadSamples (and Reset) has been used, in fixed-size mode, on a source of
\* whole samples, with no read-length cap
FixedPlain ==
    /\ rawPlain
    /\ mFixedSampleSize > 0
    /\ mMaxReadLength = 0
    /\ SrcLen(srcLayout) % mFixedSampleSize = 0

\* C7: with fixed_sample_size = s > 0 and a source of exactly N*s bytes, the counts
\* returned by repeated ReadSamples calls sum to N once a call returns 0, and the
\* source bytes are each pulled once and delivered once, in source order.
C7_FixedSizeReadsEverySampleOnce ==
    FixedPlain =>
        /\ ~rawThrew
        /\ mTotalReadLength = srcPos
        /\ srcPos <= SrcLen(srcLayout)
        /\ delivered = Bytes(0, Len(delivered))
        /\ Len(delivered) = samplesTotal * mFixedSampleSize
        /\ (rawOp = "read" /\ rawRet = 0 =>
                /\ samplesTotal = SrcLen(srcLayout) \div mFixedSampleSize
                /\ srcPos = SrcLen(srcLayout)
                /\ delivered = Bytes(0, SrcLen(srcLayout)))

\* a source of at least two samples has been read to its end by more than one call
C7_Witness ==
    /\ FixedPlain
    /\ rawOp = "read"
    /\ rawRet = 0
    /\ rawCallNo >= 2
    /\ samplesTotal >= 2
    /\ delivered = Bytes(0, SrcLen(srcLayout))

\* only ReadSamples (and Reset) has been used, in parser mode, on a source that is
\* a concatenation of whole frames, with no read-length or sample-size cap
ParserPlain ==
    /\ rawPlain
    /\ mFixedSampleSize = 0
    /\ mMaxReadLength = 0
    /\ mMaxSampleSize = 0
    /\ srcLayout.lead = 0
    /\ srcLayout.cut = 0

\* C8: in parser mode on a source of k whole frames, the first ReadSamples(n)
\* returns min(n, k), num_samples is the returned count, sample_data_size is the
\* sum of the sizes of the frames counted, and no source byte is pulled twice:
\* the bytes delivered followed by the bytes still buffered are the bytes pulled.
C8_ParserReadsWholeFrames ==
    ParserPlain =>
        /\ ~rawThrew
        /\ mTotalReadLength = srcPos
        /\ srcPos <= SrcLen(srcLayout)
        /\ delivered \o SubSeq(mSampleBuffer, mSampleDataSize + 1, Len(mSampleBuffer))
              = Bytes(0, srcPos)
        /\ (rawOp = "read" /\ rawCallNo = 1 =>
                /\ rawRet = Min(rawReq, Len(srcLayout.frames))
                /\ mNumSamples = rawRet
                /\ mSampleDataSize = SeqSum(SubSeq(srcLayout.frames, 1, rawRet)))

\* a first ReadSamples(n) has returned two frames, read in blocks smaller than a frame
C8_Witness ==
    /\ ParserPlain
    /\ rawOp = "read"
    /\ rawCallNo = 1
    /\ rawRet = 2
    /\ mReadBlockSize = 1
    /\ mSampleDataSize = SeqSum(srcLayout.frames)

\* C20: with max_sample_size set to M > 0 no sample larger than M is ever counted,
\* whether the parser reports its size at once, after several unknown results, or
\* the size is completed at the end of the stream: the samples a ReadSamples call
\* has counted hold at most M bytes each.
C20_NoSampleLargerThanMax ==
    (mMaxSampleSize > 0 /\ mFixedSampleSize = 0 /\ rawOp = "read" /\ ~rawThrew) =>
        mSampleDataSize <= mNumSamples * mMaxSampleSize

\* only ReadSamples (and Reset) has been used, in parser mode with no read-length or
\* sample-size cap, on a source that starts with a frame and ends inside its last
\* frame
ParserCutShort ==
    /\ rawPlain
    /\ mFixedSampleSize = 0
    /\ mMaxReadLength = 0
    /\ mMaxSampleSize = 0
    /\ srcLayout.lead = 0
    /\ srcLayout.cut > 0

\* the bytes of the last frame that the source holds
LastFrameBytes == srcLayout.frames[Len(srcLayout.frames)] - srcLayout.cut

\* the parser cannot tell the size of the last frame from the bytes the source holds
\* of it: it looks for the start of the next frame, or the bytes that declare the
\* size are not all there
LastFrameSizeUnknown == srcLayout.kind = "scan" \/ LastFrameBytes < HdrLen

\* a ReadSamples call has met the end of the source
MetEndOfSource == rawOp = "read" /\ ~rawThrew /\ rawRet < rawReq

ExtendsWindow(a, b) == Len(a) < Len(b) /\ SubSeq(b, 1, Len(a)) = a

\* the parser's incremental state was reset by the last ReadSamples this many times
ParserResets == Cardinality({k \in 1..Len(parserLog) : parserLog[k].op = "ResetParseFrameSize"})

\* C25: for each sample parsed the parser's incremental state is reset exactly
\* once, after the frame start has been located and before the first
\* parse_frame_size call for the sample, never between the repeated calls for the
\* same sample; every repeated call is given a buffer that starts at the same
\* sample start and extends the previous one.
C25_ParserResetOncePerSample ==
    /\ \A k \in 1..Len(parserLog) :
            /\ parserLog[k].op = "ParseFrameStart" => k = 1
            /\ parserLog[k].op = "ResetParseFrameSize" =>
                    /\ k < Len(parserLog)
                    /\ parserLog[k + 1].op = "ParseFrameSize2"
                    /\ (k > 1 /\ parserLog[k - 1].op = "ParseFrameSize2" =>
                            ~ExtendsWindow(parserLog[k - 1].data, parserLog[k + 1].data))
            /\ parserLog[k].op = "ParseFrameSize2" =>
                    /\ k > 1
                    /\ \/ parserLog[k - 1].op = "ResetParseFrameSize"
                       \/ /\ parserLog[k - 1].op = "ParseFrameSize2"
                          /\ ExtendsWindow(parserLog[k - 1].data, parserLog[k].data)
    /\ (rawOp = "read" /\ ~rawThrew /\ mFixedSampleSize = 0) =>
            /\ rawRet <= ParserResets
            /\ ParserResets <= rawRet + 1

\* a ReadSamples has parsed two samples of a source that starts with junk, reading
\* byte by byte: the frame start was looked for, the parser was reset twice and the
\* size of the first sample was asked for at least twice
C25_Witness ==
    /\ rawOp = "read"
    /\ ~rawThrew
    /\ mFixedSampleSize = 0
    /\ srcLayout.lead > 0
    /\ mReadBlockSize = 1
    /\ mNumSamples = 2
    /\ ParserResets = 2
    /\ Len(parserLog) >= 6
    /\ parserLog[1].op = "ParseFrameStart"
    /\ parserLog[2].op = "ResetParseFrameSize"
    /\ parserLog[3].op = "ParseFrameSize2"
    /\ parserLog[4].op = "ParseFrameSize2"

\* the reader fields a ReadSamples call made after the last sample must leave alone
LastSampleFields ==
    <<mSampleBuffer, mSampleDataSize, mNumSamples, mTotalReadLength, mReadFirstSample,
      mLastSampleRead, srcPos>>

\* C28: once last_sample_read is set every later ReadSamples call returns 0, pulls
\* nothing from the source and leaves the buffer, sample_data_size, num_samples and
\* the total read length unchanged, until Reset(); Reset() clears the flag and all
\* counters and puts the source at its start, so the reader is as constructed.
C28_NothingReadAfterLastSample ==
    [][/\ (mLastSampleRead /\ rawOp' = "read")
            => (rawRet' = 0 /\ ~rawThrew' /\ UNCHANGED LastSampleFields)
       /\ (rawOp # "none" /\ rawOp' = "none")
            => (/\ ~mLastSampleRead' /\ ~mReadFirstSample'
                /\ mSampleBuffer' = <<>> /\ mSampleDataSize' = 0 /\ mNumSamples' = 0
                /\ mTotalReadLength' = 0 /\ srcPos' = 0)]_vars

C28_Witness ==
    /\ mLastSampleRead
    /\ rawOp = "read"
    /\ ~rawThrew
    /\ rawRet = 0
    /\ mNumSamples > 0
    /\ mSampleDataSize > 0
    /\ rawCallNo >= 2

-----------------------------------------------------------------------------
(* Claims about RawEssenceReader with appended bytes, checked under SpecRawMix *)

\* the bytes taken into the buffer so far: read from the source or appended
BytesTaken == srcPos + appended

\* C12: with max_read_length set to L > 0 before the first read, after any sequence
\* of ReadSamples and AppendBytes calls the bytes taken into the buffer, and the
\* total read length that counts them, are at most L; no call takes more than L
\* minus the bytes taken before it, and an AppendBytes returns no more than asked.
C12_TotalReadLengthWithinCap ==
    mMaxReadLength > 0 =>
        /\ BytesTaken <= mMaxReadLength
        /\ mTotalReadLength = BytesTaken
        /\ (rawOp = "append" => rawRet <= rawReq)
        /\ ~rawThrew

\* an AppendBytes was cut short by the cap after bytes had been read from the source
C12_Witness ==
    /\ mMaxReadLength > 0
    /\ rawOp = "append"
    /\ 0 < rawRet
    /\ rawRet < rawReq
    /\ srcPos > 0
    /\ BytesTaken = mMaxReadLength

\* C27: after any sequence of SetFixedSampleSize, AppendBytes and ReadSamples calls
\* ReadSamples(n) returns at most n samples, in parser mode and in fixed-size mode,
\* also when the buffer already holds more than fixed_sample_size * n bytes left
\* over from a parser-mode read or added by AppendBytes.
C27_ReadSamplesReturnsAtMostRequested ==
    (rawOp = "read" /\ ~rawThrew) => rawRet <= rawReq

-----------------------------------------------------------------------------
(* Claims about MXFFileReader::Read, checked under SpecRead *)

NtscSeq == <<1602, 1601, 1602, 1601, 1602>>

\* external reader i was pulled by the last Read
Pulled(i) == \E k \in 1..Len(rdLog) : rdLog[k].op = "pull" /\ rdLog[k].rd = i

\* C1: Read(n) returns at most n, whatever the mix of internal essence reader and
\* enabled external readers and their rates: no reader's count, in clip edit
\* units, exceeds n, so the check max_num_read <= n never fails.
C1_ReadReturnsAtMostRequested ==
    rdOp = "read" =>
        /\ rdRet <= rdN
        /\ rdFail # "assert"

\* a Read(n) of two or more edit units that pulled an internal reader and two
\* external readers, one at another rate, and returned n
C1_Witness ==
    /\ rdOp = "read"
    /\ rdN >= 2
    /\ rdRet = rdN
    /\ InternalReading
    /\ NumExt = 2
    /\ Pulled(1)
    /\ Pulled(2)
    /\ ExtSeq(2) = NtscSeq

\* C2: after a Read that returned k > 0, GetPosition() is the position on entry
\* plus k, also when the readers read different numbers of samples.
C2_PositionAdvancesByReturn ==
    (rdOp = "read" /\ rdRet > 0) => GetPosition = rdEntry + rdRet

PhaseSum(seq, p, n) == SeqSum([j \in 1..n |-> seq[((p + j - 1) % Len(seq)) + 1]])

\* C9: Read(n) at clip position p asks an enabled external reader with sample
\* sequence seq for the sum of the n elements of seq from phase p mod len(seq) on:
\* n for [1], 1920 for one clip frame with [1920], 8008 for Read(5) at position 0
\* with [1602,1601,1602,1601,1602].
C9_ExternalRequestIsPhaseSum ==
    rdOp = "read" =>
        \A i \in 1..NumExt :
            /\ (rdFail = "none" /\ ExtEnabled(i) => Pulled(i))
            /\ (Pulled(i) =>
                    /\ \E k \in 1..Len(rdLog) :
                            rdLog[k] = [op |-> "pull", rd |-> i, arg |-> rdReq[i]]
                    /\ rdReq[i] = PhaseSum(ExtSeq(i), rdEntry, rdN)
                    /\ (ExtSeq(i) = <<1>> => rdReq[i] = rdN)
                    /\ (ExtSeq(i) = <<1920>> /\ rdN = 1 => rdReq[i] = 1920)
                    /\ (ExtSeq(i) = NtscSeq /\ rdN = 5 /\ rdEntry = 0 => rdReq[i] = 8008))

\* a Read(2) at a position whose phase is not 0 pulled 1601 + 1602 samples
C9_Witness ==
    /\ rdOp = "read"
    /\ rdEntry = 1
    /\ rdN = 2
    /\ \E i \in 1..NumExt : Pulled(i) /\ ExtSeq(i) = NtscSeq /\ rdReq[i] = 3203

\* the readers a Read at clip position p calls, in order, from external reader i
\* on, the external readers standing at ext: a seek of a reader that is not at p
\* in its own rate, then its pull
RECURSIVE ExpectedExternalCalls(_, _, _)
ExpectedExternalCalls(i, p, ext) ==
    IF i > NumExt THEN <<>>
    ELSE IF ~rdCfg.exts[i].enabled THEN ExpectedExternalCalls(i + 1, p, ext)
    ELSE (IF ext[i] # convert_position_higher(p, rdCfg.exts[i].seq)
          THEN <<[op |-> "seek", rd |-> i]>> ELSE <<>>)
         \o <<[op |-> "pull", rd |-> i]>>
         \o ExpectedExternalCalls(i + 1, p, ext)

ExpectedCalls(p, ext) ==
    (IF InternalReading THEN <<[op |-> "pull", rd |-> 0]>> ELSE <<>>)
        \o ExpectedExternalCalls(1, p, ext)

CallsOf(log) == [k \in 1..Len(log) |-> [op |-> log[k].op, rd |-> log[k].rd]]

\* C11: within one completed Read the internal essence reader is pulled first, the
\* enabled external readers are pulled in their registration order, and an external
\* reader is seeked just before its pull exactly when it does not stand at the
\* clip position converted to its rate.
C11_InternalFirstThenExternalsInOrder ==
    [][(rdOp' = "read" /\ rdFail' = "none") =>
            CallsOf(rdLog') = ExpectedCalls(GetPosition, extPos)]_vars

\* a Read pulled the internal reader, then the first external reader without a
\* seek, then seeked and pulled the second external reader, which had drifted
C11_Witness ==
    /\ rdOp = "read"
    /\ rdFail = "none"
    /\ NumExt = 2
    /\ CallsOf(rdLog) = <<[op |-> "pull", rd |-> 0], [op |-> "pull", rd |-> 1],
                          [op |-> "seek", rd |-> 2], [op |-> "pull", rd |-> 2]>>

\* C23: a Read called while frame info is still required and whose extraction does
\* not complete returns 0 with the read error set and the message "Failed to
\* extract information from frame(s)", starts no read on a track buffer, pulls no
\* reader and moves none; when the extraction completes the same Read goes on to
\* the normal pull.
C23_PendingFrameInfoGatesRead ==
    [][(rdOp' = "read" /\ mRequireFrameInfoCount > 0) =>
            IF mRequireFrameInfoCount' > 0
            THEN /\ rdRet' = 0
                 /\ mReadError'
                 /\ mReadErrorMessage' = "Failed to extract information from frame(s)"
                 /\ bufLog' = <<>>
                 /\ rdLog' = <<>>
                 /\ essPos' = essPos
                 /\ extPos' = extPos
            ELSE /\ bufLog' # <<>>
                 /\ bufLog'[1] = "StartRead"
                 /\ mReadErrorMessage' # "Failed to extract information from frame(s)"
                 /\ (rdFail' = "none" => CallsOf(rdLog') = ExpectedCalls(GetPosition, extPos))]_vars

\* a Read away from the start of a clip with an internal reader and an enabled
\* external reader has returned without the frame info
C23_Witness ==
    /\ rdOp = "read"
    /\ rdFail = "info"
    /\ mRequireFrameInfoCount > 0
    /\ rdEntry > 0
    /\ InternalReading
    /\ NumExt >= 1
    /\ ExtEnabled(1)

\* C24 (as stated): Seek(p) retargets the internal essence reader to p + file_origin
\* and each enabled external reader i to convert_pos_lower(p, seq_i).
C24_SeekRetargetsWithLowerConversion ==
    rdOp = "seek" =>
        /\ (InternalReading => essPos = rdN + rdCfg.origin)
        /\ \A i \in 1..NumExt :
                ExtEnabled(i) => extPos[i] = convert_position_lower(rdN, ExtSeq(i))

\* C24 (amended): Seek(p) retargets the internal essence reader to p + file_origin
\* and each enabled external reader i to convert_pos_higher(p, seq_i), the position
\* in the external reader's own edit units.
C24_SeekRetargetsWithHigherConversion ==
    rdOp = "seek" =>
        /\ (InternalReading => essPos = rdN + rdCfg.origin)
        /\ \A i \in 1..NumExt :
                ExtEnabled(i) => extPos[i] = convert_position_higher(rdN, ExtSeq(i))

\* a Seek(3) on a clip with a non-zero file origin and an external reader with the
\* sample sequence 2, 1, 2, which stands at its sample 5
C24_Witness ==
    /\ rdOp = "seek"
    /\ rdN = 3
    /\ InternalReading
    /\ rdCfg.origin > 0
    /\ essPos = 3 + rdCfg.origin
    /\ NumExt >= 1
    /\ ExtEnabled(1)
    /\ ExtSeq(1) = <<2, 1, 2>>
    /\ extPos[1] = 5

\* the clip has a reader its position is taken from
HavePositionSource == InternalReading \/ \E i \in 1..NumExt : ExtEnabled(i)

\* C26: for every position p inside the read limits GetPosition() immediately after
\* Seek(p) returns p, when the position comes from the internal essence reader and
\* when, without an enabled internal reader, it is derived from the first enabled
\* external reader through its sample sequence.
C26_GetPositionAfterSeek ==
    (rdOp = "seek" /\ HavePositionSource) => GetPosition = rdN

\* a Seek(3) on a clip without internal reader whose first enabled external reader
\* has the sample sequence 1602, 1601, 1602, 1601, 1602
C26_Witness ==
    /\ rdOp = "seek"
    /\ rdN = 3
    /\ ~InternalReading
    /\ NumExt >= 1
    /\ ExtEnabled(1)
    /\ ExtSeq(1) = NtscSeq
    /\ extPos[1] = 4805

\* how often the last Read made the call `op` on the enabled track buffers
BufferCalls(op) == Cardinality({i \in DOMAIN bufLog : bufLog[i] = op})

-----------------------------------------------------------------------------
(* Claims about MXFFileReader::Open, checked under SpecOpen *)

OpenFailed == opResult \notin {"none", "SUCCESS"}

\* C13: whenever Open returns a result other than Success, at whatever step it
\* failed, nothing of the partially built clip is left in the reader: the essence
\* reader and the header metadata are released, and the track readers, internal
\* track readers, external readers, external track readers, sample sequences and
\* text objects are all empty.
C13_FailedOpenLeavesNothing ==
    OpenFailed =>
        /\ ~mEssenceReader
        /\ ~mHeaderMetadata
        /\ mTrackReaders = <<>>
        /\ mInternalTrackReaders = <<>>
        /\ mExternalReaders = <<>>
        /\ mExternalTrackReaders = <<>>
        /\ mExternalSampleSequences = <<>>
        /\ mTextObjects = <<>>
        /\ mInternalTextObjects = <<>>

\* C14: Open returns NoHeaderMetadata whenever the partition chosen for metadata
\* carries no header metadata (none chosen, or header byte count 0), seekable or
\* not, index file enabled or not, all partitions read or not.
C14_NoHeaderMetadataWhenPartitionHasNone ==
    (opResult # "none" /\ opFile.headerOk
            /\ (opPartition = 0 \/ opFile.parts[opPartition] = 0)) =>
        opResult = "NO_HEADER_METADATA"

\* x sorts before y when 0 sorts last
LessZeroLast(x, y) == x # 0 /\ (y = 0 \/ x < y)

\* track a is to come before track b: by data_def, then by material track number
\* with 0 last, then by material track id with 0 last, then by their order in the
\* material package
OrderedBefore(a, b) ==
    \/ a.data_def < b.data_def
    \/ /\ a.data_def = b.data_def
       /\ \/ LessZeroLast(a.material_track_number, b.material_track_number)
          \/ /\ a.material_track_number = b.material_track_number
             /\ \/ LessZeroLast(a.material_track_id, b.material_track_id)
                \/ a.material_track_id = b.material_track_id /\ a.mp < b.mp

\* C16: after a successful open the track list is ordered by data_def, then by
\* material track number with 0 last, then by material track id with 0 last, and
\* tracks equal on all three keep their material package order; two tracks with
\* the same data_def and the same non-zero track number are ordered by their ids.
C16_TracksOrderedByDataDefNumberId ==
    opResult = "SUCCESS" =>
        \A i \in 1..Len(mTrackReaders) : \A j \in (i + 1)..Len(mTrackReaders) :
            OrderedBefore(mTrackReaders[i], mTrackReaders[j])

\* C30: compare_track_reader is a strict weak ordering over the track infos: it is
\* never true for a track compared with itself, or with a track equal on data_def,
\* track number and track id, also when both numbers and both ids are 0, and it is
\* never true for both (a, b) and (b, a).
C30_ComparatorIsStrictWeakOrdering ==
    \A i \in 1..Len(mTrackReaders) :
        /\ ~compare_track_reader(mTrackReaders[i], mTrackReaders[i])
        /\ \A j \in 1..Len(mTrackReaders) :
                ~(/\ compare_track_reader(mTrackReaders[i], mTrackReaders[j])
                  /\ compare_track_reader(mTrackReaders[j], mTrackReaders[i]))

\* every track of the file is an internal file package track with an origin that
\* is not negative
InternalTracksOnly(file) ==
    /\ file.tracks # <<>>
    /\ \A i \in 1..Len(file.tracks) :
            file.tracks[i].kind \in {"file", "tt"} /\ file.tracks[i].origin >= 0

\* all non-timed-text tracks have the same origin and every timed-text track has
\* origin 0
OriginsAgree(file) ==
    \A i \in 1..Len(file.tracks) :
        IF file.tracks[i].kind = "tt" THEN file.tracks[i].origin = 0
        ELSE \A j \in 1..Len(file.tracks) :
                file.tracks[j].kind # "tt" => file.tracks[j].origin = file.tracks[i].origin

\* C17: Open accepts a file exactly when all internal non-timed-text tracks have the
\* same origin and every internal timed-text track has origin 0, and then
\* mFileOrigin is that shared origin; otherwise it fails with NotSupported,
\* whatever the order of timed-text and other tracks in the material package.
C17_OriginsAcceptedWhateverTheOrder ==
    (opResult \in {"SUCCESS", "NOT_SUPPORTED"} /\ InternalTracksOnly(opFile)) =>
        /\ opResult = "SUCCESS" <=> OriginsAgree(opFile)
        /\ opResult = "SUCCESS" =>
                \A i \in 1..Len(opFile.tracks) :
                    opFile.tracks[i].kind # "tt" => mFileOrigin = opFile.tracks[i].origin

\* the durations that contribute to the clip's: of the internal tracks in their own
\* edit rate, of the external readers in theirs
InternalTrackDurations == {mInternalTrackReaders[i].duration : i \in 1..Len(mInternalTrackReaders)}

ExternalReaderDurations == {opFile.exts[mExternalReaders[i]].duration : i \in 1..Len(mExternalReaders)}

\* the same durations in clip edit units
DurationsAtClipRate ==
    {convert_duration(mInternalTrackReaders[i].edit_rate, mInternalTrackReaders[i].duration,
                      mEditRate) : i \in 1..Len(mInternalTrackReaders)}
    \cup {convert_duration_lower(opFile.exts[mExternalReaders[i]].duration, 0,
                                 mExternalSampleSequences[i]) : i \in 1..Len(mExternalReaders)}

\* C18: after a successful open mDuration is unknown (negative) if the duration of
\* an internal track or of an external reader is unknown, and otherwise it is the
\* minimum of the internal track durations converted to the clip rate and the
\* external reader durations converted through their sample sequences.
C18_DurationIsMinimumOrUnknown ==
    opResult = "SUCCESS" =>
        IF \E d \in InternalTrackDurations \cup ExternalReaderDurations : d < 0
        THEN mDuration < 0
        ELSE /\ mDuration \in DurationsAtClipRate
             /\ \A d \in DurationsAtClipRate : mDuration <= d

\* a clip with an internal track and two external readers, one at one and a half
\* times the clip rate, whose duration is set by an external reader
C18_Witness ==
    /\ opResult = "SUCCESS"
    /\ mInternalTrackReaders # <<>>
    /\ Len(mExternalReaders) = 2
    /\ mExternalSampleSequences[2] = <<2, 1>>
    /\ mDuration >= 0
    /\ \A i \in 1..Len(mInternalTrackReaders) :
            mDuration < convert_duration(mInternalTrackReaders[i].edit_rate,
                                         mInternalTrackReaders[i].duration, mEditRate)
    /\ mDuration = convert_duration_lower(opFile.exts[mExternalReaders[2]].duration, 0, <<2, 1>>)
    /\ mDuration < convert_duration_lower(opFile.exts[mExternalReaders[1]].duration, 0,
                                          mExternalSampleSequences[1])

\* track reader i was built for a timed text track that has lead filler in the
\* material package
TimedTextWithLeadFiller(i) ==
    /\ mTrackReaders[i].essence_type = "TIMED_TEXT"
    /\ opFile.tracks[mTrackReaders[i].mp].lead > 0

\* the lead filler of track reader i is in its duration and in its manifest's start
LeadFillerFolded(i) ==
    /\ mTrackReaders[i].lead_filler_offset = 0
    /\ mTrackReaders[i].duration = opFile.tracks[mTrackReaders[i].mp].duration
                                        + opFile.tracks[mTrackReaders[i].mp].lead
    /\ mTrackReaders[i].start = opFile.tracks[mTrackReaders[i].mp].lead

\* track reader i is as the material package track describes it
LeadFillerKept(i) ==
    /\ mTrackReaders[i].lead_filler_offset = opFile.tracks[mTrackReaders[i].mp].lead
    /\ mTrackReaders[i].duration = opFile.tracks[mTrackReaders[i].mp].duration
    /\ mTrackReaders[i].start = 0

\* all tracks of the material package, which are at the clip's edit rate, have the
\* same non-zero lead filler, and one of them is not a timed text track
LeadFillerIsClipOffset ==
    /\ \A i \in 1..Len(opFile.tracks) :
            /\ opFile.tracks[i].lead > 0
            /\ opFile.tracks[i].lead = opFile.tracks[1].lead
            /\ opFile.tracks[i].rate = mEditRate
    /\ \E i \in 1..Len(opFile.tracks) : opFile.tracks[i].kind # "tt"

\* C22 (as stated): after a successful open every timed text track that had lead
\* filler f > 0 in the material package has lead_filler_offset 0, a duration
\* increased by f and manifest start f, in every case, also when all tracks agree
\* on the same non-zero lead filler.
C22_TimedTextLeadFillerAlwaysFolded ==
    opResult = "SUCCESS" =>
        \A i \in 1..Len(mTrackReaders) : TimedTextWithLeadFiller(i) => LeadFillerFolded(i)

\* C22 (amended): after a successful open a timed text track that had lead filler
\* f > 0 has lead_filler_offset 0, a duration increased by f and manifest start f,
\* unless all tracks agree on the same non-zero lead filler and one of them is not
\* a timed text track: then the track keeps its lead filler and its duration.
C22_TimedTextLeadFillerFoldedUnlessFixed ==
    opResult = "SUCCESS" =>
        \A i \in 1..Len(mTrackReaders) :
            TimedTextWithLeadFiller(i) =>
                IF LeadFillerIsClipOffset THEN LeadFillerKept(i) ELSE LeadFillerFolded(i)

\* a clip of a picture track without lead filler and a timed text track whose lead
\* filler of 2 is in its duration
C22_Witness ==
    /\ opResult = "SUCCESS"
    /\ Len(mTrackReaders) = 2
    /\ mTrackReaders[1].essence_type # "TIMED_TEXT"
    /\ TimedTextWithLeadFiller(2)
    /\ mTrackReaders[2].start = 2
    /\ mTrackReaders[2].duration = 6

-----------------------------------------------------------------------------
(* Claims about GetReferencedPackage, checked under SpecWalk *)

\* C19: the package-reference walk terminates on every header metadata graph, also
\* on malformed graphs whose SourceClips form a cycle (a track that refers to itself
\* at any offset, two or more tracks that refer to each other): a walk that has
\* started returns.
C19_WalkTerminates == (gpResult = "walking") ~> (gpResult \in {"true", "false"})

-----------------------------------------------------------------------------
(* Claims about the position conversions, checked under SpecConv *)

\* C4: for every external sample sequence and every clip position p in
\* [0, mDuration), p converted to the external rate and back is p.
C4_PositionRoundTrip ==
    cvPos >= 0 => (cvPos < cvDuration /\ cvBack = cvPos)

\* a position inside a sequence cycle of unequal elements went there and back
C4_Witness ==
    /\ cvSeq = NtscSeq
    /\ cvPos = 3
    /\ cvHigher = 4805
    /\ cvBack = 3

-----------------------------------------------------------------------------
(* Claims about GetMaxPrecharge / GetMaxRollout, checked under SpecPC *)

\* the last query returned a value
Answered(op) == pcOp = op /\ ~pcRes.threw

\* an enabled internal track is of an inter-frame-coded essence type
EnabledInterFrameTrack ==
    \E i \in 1..Len(rdCfg.tracks) :
        /\ rdCfg.tracks[i].enabled
        /\ rdCfg.tracks[i].essence_type \in InterFrameEssenceTypes

\* every enabled external reader reports no required precharge and no rollout
ExternalsRequireNothing ==
    \A i \in 1..NumExt : ExtEnabled(i) => rdCfg.exts[i].pre = 0 /\ rdCfg.exts[i].ro = 0

\* C5: on a complete file, for every target position, index table content and set
\* of external readers, the value GetMaxPrecharge(p, false) returns is <= 0 and
\* the value GetMaxRollout(p, false) returns is >= 0.
C5_PrechargeNotPositiveRolloutNotNegative ==
    /\ (Answered("precharge") => pcRes.val <= 0)
    /\ (Answered("rollout") => pcRes.val >= 0)
    /\ (pcOp # "none" /\ rdCfg.complete /\ ExternalsRequireNothing => ~pcRes.threw)

\* a precharge was asked at an entry whose key_frame_offset is positive, of a file
\* with an enabled inter-frame track, and answered
C5_Witness ==
    /\ Answered("precharge")
    /\ EnabledInterFrameTrack
    /\ InEssenceRange(pcPos)
    /\ GetInternalIndexEntry(pcPos).temporal_offset = 0
    /\ GetInternalIndexEntry(pcPos).key_frame_offset > 0
    /\ pcRes.val = 0

\* C6 as stated: with no enabled inter-frame internal track, GetMaxPrecharge(p, false)
\* and GetMaxRollout(p, false) are 0 at every position, whatever the index holds.
C6_IntraOnlyNeedsNothing ==
    (pcOp # "none" /\ rdCfg.complete /\ ~EnabledInterFrameTrack) =>
        (~pcRes.threw /\ pcRes.val = 0)

\* C6: with no enabled inter-frame internal track, and every enabled external
\* reader reporting no required precharge or rollout, GetMaxPrecharge(p, false) and
\* GetMaxRollout(p, false) of a complete file are 0 at every position, whatever
\* the index holds.
C6_IntraOnlyNeedsNothingFromInternal ==
    (pcOp # "none" /\ rdCfg.complete /\ ~EnabledInterFrameTrack
        /\ ExternalsRequireNothing) =>
        (~pcRes.threw /\ pcRes.val = 0)

\* a query inside the essence range of a file whose only inter-frame track is
\* disabled, at an entry that would otherwise give a precharge, answered 0
C6_Witness ==
    /\ Answered("precharge")
    /\ ~EnabledInterFrameTrack
    /\ \E i \in 1..Len(rdCfg.tracks) : rdCfg.tracks[i].essence_type = "AVC_HIGH"
    /\ InternalIsEnabled
    /\ ExternalsRequireNothing
    /\ InEssenceRange(pcPos)
    /\ GetInternalIndexEntry(pcPos).key_frame_offset < 0
    /\ pcRes.val = 0

\* temporal_offset and key_frame_offset of clip position p, read off the table
TemporalOffsetAt(p) == rdCfg.index[p + rdCfg.origin + 1].temporal_offset

KeyFrameOffsetAt(p) == rdCfg.index[p + rdCfg.origin + 1].key_frame_offset

HasEntry(p) == p + rdCfg.origin >= 0 /\ p + rdCfg.origin < Len(rdCfg.index)

\* key_frame_offset(p) for an anchor frame, temporal_offset(p) plus the
\* key_frame_offset of the entry it refers to otherwise
ClaimedPrecharge(p) ==
    IF TemporalOffsetAt(p) = 0 THEN KeyFrameOffsetAt(p)
    ELSE TemporalOffsetAt(p) + KeyFrameOffsetAt(p + TemporalOffsetAt(p))

\* a precharge query on an enabled inter-frame track, inside the essence range,
\* whose entry refers to an entry of the table
PrechargeInRange ==
    /\ Answered("precharge")
    /\ EnabledInterFrameTrack
    /\ HasEntry(pcPos)
    /\ HasEntry(pcPos + TemporalOffsetAt(pcPos))

\* C10 as stated: the precharge of an inter-frame track at p inside the essence
\* range is key_frame_offset(p) when temporal_offset(p) = 0, and temporal_offset(p) +
\* key_frame_offset(p + temporal_offset(p)) otherwise, a positive value read as 0.
C10_PrechargeFromIndex ==
    PrechargeInRange => pcRes.val = Min(0, ClaimedPrecharge(pcPos))

\* C10: when no enabled external reader requires precharge, the precharge of an
\* inter-frame track at p inside the essence range is key_frame_offset(p) when
\* temporal_offset(p) = 0, and temporal_offset(p) + key_frame_offset(p +
\* temporal_offset(p)) otherwise (0 when that entry does not exist), a positive
\* value read as 0: -2, 0, -2 at 2, 3, 5 of key_frame_offsets 0,-1,-2,0,-1,-2, and
\* -4 at 4 with temporal_offset -2 there and key_frame_offset -2 at 2.
C10_PrechargeFromIndexAlone ==
    /\ (PrechargeInRange /\ ExternalsRequireNothing =>
            pcRes.val = Min(0, ClaimedPrecharge(pcPos)))
    /\ (Answered("precharge") /\ EnabledInterFrameTrack /\ ExternalsRequireNothing
            /\ HasEntry(pcPos) /\ ~HasEntry(pcPos + TemporalOffsetAt(pcPos)) =>
            pcRes.val = 0)
    /\ (Answered("precharge") /\ EnabledInterFrameTrack /\ ExternalsRequireNothing
            /\ rdCfg.origin = 0 /\ rdCfg.index = KeyFrameEvery3 =>
            /\ (pcPos = 2 => pcRes.val = -2)
            /\ (pcPos = 3 => pcRes.val = 0)
            /\ (pcPos = 5 => pcRes.val = -2))
    /\ (Answered("precharge") /\ EnabledInterFrameTrack /\ ExternalsRequireNothing
            /\ rdCfg.origin = 0 /\ rdCfg.index = BFrameAt4 /\ pcPos = 4 =>
            pcRes.val = -4)

\* the precharge of a B-frame: temporal_offset -2 at 4 and key_frame_offset -2 at 2
C10_Witness ==
    /\ PrechargeInRange
    /\ ExternalsRequireNothing
    /\ rdCfg.index = BFrameAt4
    /\ rdCfg.origin = 0
    /\ pcPos = 4
    /\ pcRes.val = -4


\* an enabled external reader whose edit rate differs from the clip's reports a
\* non-zero requirement for the query op
DifferentRateRequires(op) ==
    \E i \in 1..NumExt :
        /\ rdCfg.exts[i].enabled
        /\ rdCfg.exts[i].seq # <<1>>
        /\ \/ op = "precharge" /\ rdCfg.exts[i].pre # 0
           \/ op = "rollout" /\ rdCfg.exts[i].ro # 0

\* no enabled external reader at the clip's edit rate requires anything
SameRateRequireNothing ==
    \A i \in 1..NumExt :
        (rdCfg.exts[i].enabled /\ rdCfg.exts[i].seq = <<1>>) =>
            rdCfg.exts[i].pre = 0 /\ rdCfg.exts[i].ro = 0

\* C15: in the required precharge and rollout queries on a complete file, an
\* external reader whose edit rate differs from the clip's and that reports a
\* non-zero precharge or rollout contributes zero: the query still returns a value,
\* and that value is 0 when nothing else requires precharge or rollout.
C15_DifferentRateContributesZero ==
    (pcOp # "none" /\ rdCfg.complete /\ DifferentRateRequires(pcOp)) =>
        /\ ~pcRes.threw
        /\ (SameRateRequireNothing /\ ~EnabledInterFrameTrack => pcRes.val = 0)

=============================================================================
